---- MODULE Spec2Model ----
(***************************************************************************)
(* Model of the Stella emulation scheduling core:                          *)
(*   - BreakpointMap (src/debugger/BreakpointMap.cxx, BreakpointMap.hxx)   *)
(*   - OSystem::mainLoop / OSystem::dispatchEmulation (OSystem.cxx)        *)
(*   - StateManager (src/common/StateManager.cxx)                          *)
(*   - NTSCFilter (src/common/tv_filters/NTSCFilter.cxx)                   *)
(***************************************************************************)
EXTENDS Integers, Sequences, FiniteSets, TLC

(***************************************************************************)
(* Bounds of the model                                                     *)
(***************************************************************************)
\* 4K pages used by the inputs: page p contributes address p * 0x1000
MaxPage == 3
\* cap on the number of entries the model lets the map grow to
MaxSize == 2

(***************************************************************************)
(* BreakpointMap.hxx                                                       *)
(***************************************************************************)
ADDRESS_MASK == 8191
ONE_SHOT == 1
\* multiplier of the masked address in BreakpointHash
HASH_MULT == 13
\* number of buckets of the unordered_map the model looks keys up in
BucketCount == 3

RECURSIVE BitAnd(_, _)
BitAnd(a, b) ==
  IF a = 0 \/ b = 0 THEN 0
  ELSE (a % 2) * (b % 2) + 2 * BitAnd(a \div 2, b \div 2)

\* explicit Breakpoint(uInt16 c_addr, uInt8 c_bank)
Breakpoint(c_addr, c_bank) == [addr |-> c_addr % 65536, bank |-> c_bank % 256]

\* addr & ADDRESS_MASK, tabulated once for the 16-bit addresses the inputs produce
Masked == [a \in {(hi * 4096) % 65536 : hi \in 0..MaxPage}
             |-> BitAnd(a, ADDRESS_MASK)]

\* bool Breakpoint::operator==(const Breakpoint& other)
BpEq(bp, other) ==
  /\ Masked[bp.addr] = Masked[other.addr]
  /\ bp.bank = other.bank

\* std::hash<uInt64>: the identity on the values that occur (all below 2^17)
StdHash(x) == x

\* size_t BreakpointHash::operator()(const Breakpoint& bp)
BreakpointHash_NoMask(bp) == StdHash(bp.addr * HASH_MULT + bp.bank)
BreakpointHash(bp) == StdHash(Masked[bp.addr] * HASH_MULT + bp.bank)

\* the bucket of the unordered_map a key is looked up in
Bucket(bp) == BreakpointHash(bp) % BucketCount

(***************************************************************************)
(* Inputs                                                                  *)
(***************************************************************************)
AddrInputs == {hi * 4096 : hi \in 0..MaxPage}
BankInputs == {0, HASH_MULT}
FlagInputs == {0, ONE_SHOT}
Breakpoints == {Breakpoint(a, b) : a \in AddrInputs, b \in BankInputs}
NoBreakpoint == Breakpoint(0, 0)

VARIABLES
  myMap,          \* std::unordered_map<Breakpoint, uInt32, BreakpointHash>: set of nodes
  myInitialized,  \* bool myInitialized
  liveKeys,       \* keys (address mod 0x2000, bank) added and not since erased or cleared
  bpCall,         \* the last BreakpointMap operation: name, arguments, map before it
  bpRet           \* what the last BreakpointMap operation returned

bpVars == <<myMap, myInitialized, liveKeys, bpCall, bpRet>>

VARIABLES
  pc,               \* position of the foreground thread in mainLoop / dispatchEmulation
  ehState,          \* myEventHandler->state()
  wasEmulation,     \* bool wasEmulation
  myQuitLoop,       \* bool myQuitLoop
  myConsole,        \* myConsole != nullptr
  debuggerSupport,  \* the build defines DEBUGGER_SUPPORT
  wall,             \* high_resolution_clock, in ticks
  virtualTime,      \* time_point virtualTime, in ticks
  now,              \* time_point now, the sample of the clock taken after the advance
  timeslice,        \* double timesliceSeconds, as the fraction <<cycles or 1, per second>>
  framePending,     \* bool framePending
  dispatchResult,   \* DispatchResult dispatchResult: the object (id) and its status
  nextResultId,     \* number of DispatchResult objects constructed so far
  totalCycles,      \* uInt64 totalCycles
  workerStarted,    \* EmulationWorker: between start() and stop()
  workerResult,     \* EmulationWorker: the DispatchResult it was handed
  workerCycles,     \* EmulationWorker: cycles executed since start()
  workerFault,      \* EmulationWorker: the misuse that made it fail, if any
  frameCopied,      \* the pending frame was copied to the frame buffer in this dispatch
  startLog,         \* the DispatchResult objects handed to start(), in order
  iterCalls,        \* the start()/stop() calls of the current main loop iteration
  drReads,          \* what the controller read of the DispatchResult, and when
  resyncDrop,       \* the lag the last reconciliation dropped by setting virtualTime to now
  cheatSupport,     \* the build defines CHEATCODE_SUPPORT
  cheatFlushes,     \* the CheatManager saves made by the cleanup after the loop
  fatalPending,     \* a fatal result was handled and no event has arrived since
  fry,              \* the frying test of the current dispatch and what it did
  iterSteps         \* what the current main loop iteration did after the poll

loopVars == <<pc, ehState, wasEmulation, myQuitLoop, myConsole, debuggerSupport, wall,
              virtualTime, now, timeslice, framePending, dispatchResult, nextResultId,
              totalCycles, workerStarted, workerResult, workerCycles, workerFault,
              frameCopied, startLog, iterCalls, drReads, resyncDrop, cheatSupport,
              cheatFlushes, fatalPending, fry, iterSteps>>

VARIABLES
  myActiveMode,     \* Mode myActiveMode
  myCurrentSlot,    \* int myCurrentSlot
  myRewindManager,  \* unique_ptr<RewindManager> myRewindManager: its history and cursor
  settings,         \* myOSystem.settings(): the boolean settings the StateManager uses
  machine,          \* the state of the live console
  files,            \* the state files of the current cartridge, by slot
  smCall,           \* the last StateManager operation: what it called and the message it showed
  settingsStale     \* "dev.settings" changed since the mode was last derived or written

smVars == <<myActiveMode, myCurrentSlot, myRewindManager, settings, machine, files,
            smCall, settingsStale>>

VARIABLES
  myPreset,             \* Preset myPreset
  myCurrentAdjustable,  \* myCurrentAdjustable, the index into ourCustomAdjustables
  myCustomSetup,        \* static AtariNTSC::Setup myCustomSetup, in hundredths
  mySetup,              \* AtariNTSC::Setup mySetup: the table it was copied from
  ntCall,               \* history: the last NTSCFilter call, and the call before it
  ntAdjusts             \* history: number of increaseAdjustable / decreaseAdjustable steps

ntVars == <<myPreset, myCurrentAdjustable, myCustomSetup, mySetup, ntCall, ntAdjusts>>

vars == <<bpVars, loopVars, smVars, ntVars>>

\* the key the specification speaks of: the low 13 bits of the address, and the bank
Key(bp) == <<bp.addr % 8192, bp.bank>>

\* unordered_map::find: the nodes of the key's bucket that compare equal to the key
Find(map, bp) == {n \in map : Bucket(n.first) = Bucket(bp) /\ BpEq(n.first, bp)}

\* size_t BreakpointMap::size()
size(map) == Cardinality(map)

\* uInt32 BreakpointMap::get(const Breakpoint&) const
get_AnyNode(map, bp) ==
  IF map # {} THEN (CHOOSE n \in map : TRUE).second ELSE 0
get(map, bp) ==
  IF Find(map, bp) # {} THEN (CHOOSE n \in Find(map, bp) : TRUE).second ELSE 0

\* bool BreakpointMap::check(const Breakpoint&) const
check(map, bp) == Find(map, bp) # {}

\* the orders in which an iteration over the unordered_map can visit its nodes
Orders(map) ==
  {s \in [1..Cardinality(map) -> map] : \A i, j \in 1..Cardinality(map) : i # j => s[i] # s[j]}

NoRet == [flags |-> 0, found |-> FALSE, list |-> <<>>]
Call(op, bp, flags) ==
  [op |-> op, bp |-> bp, flags |-> flags, had |-> check(myMap, bp), oldSize |-> size(myMap),
   oldFlags |-> get(myMap, bp),
   oldAddrs |-> IF op = "add" THEN {n.first.addr : n \in Find(myMap, bp)} ELSE {}]

\* BreakpointMap::BreakpointMap()
BpInit ==
  /\ myMap = {}
  /\ myInitialized = FALSE
  /\ liveKeys = {}
  /\ bpCall = [op |-> "new", bp |-> NoBreakpoint, flags |-> 0, had |-> FALSE, oldSize |-> 0,
               oldFlags |-> 0, oldAddrs |-> {}]
  /\ bpRet = NoRet

\* myMap[breakpoint] = flags
Assign_Insert(map, bp, flags) == map \cup {[first |-> bp, second |-> flags]}

\* an assignment that stores the key it was given in place of the stored one
Assign_NewKey(map, bp, flags) ==
  (map \ Find(map, bp)) \cup {[first |-> bp, second |-> flags]}

Assign_KeepOld(map, bp, flags) ==
  IF Find(map, bp) # {} THEN map ELSE map \cup {[first |-> bp, second |-> flags]}

Assign(map, bp, flags) ==
  IF Find(map, bp) # {}
  THEN (map \ Find(map, bp)) \cup {[n EXCEPT !.second = flags] : n \in Find(map, bp)}
  ELSE map \cup {[first |-> bp, second |-> flags]}

\* void BreakpointMap::add(const uInt16 addr, const uInt8 bank, const uInt32 flags)
add(addr, bank, flags) ==
  LET breakpoint == Breakpoint(addr, bank) IN
  /\ check(myMap, breakpoint) \/ size(myMap) < MaxSize
  /\ myInitialized' = TRUE
  /\ myMap' = Assign(myMap, breakpoint, flags)
  /\ liveKeys' = liveKeys \cup {Key(breakpoint)}
  /\ bpCall' = Call("add", breakpoint, flags)
  /\ bpRet' = NoRet
  /\ UNCHANGED <<loopVars, smVars, ntVars>>

\* myMap.erase(breakpoint)
Erase_Bucket(map, bp) == {n \in map : Bucket(n.first) # Bucket(bp)}
Erase(map, bp) == map \ Find(map, bp)

\* void BreakpointMap::erase(const uInt16 addr, const uInt8 bank)
erase(addr, bank) ==
  LET breakpoint == Breakpoint(addr, bank) IN
  /\ myMap' = Erase(myMap, breakpoint)
  /\ liveKeys' = liveKeys \ {Key(breakpoint)}
  /\ bpCall' = Call("erase", breakpoint, 0)
  /\ bpRet' = NoRet
  /\ UNCHANGED myInitialized
  /\ UNCHANGED <<loopVars, smVars, ntVars>>

\* uInt32 BreakpointMap::get(uInt16 addr, uInt8 bank) const
bpGet(addr, bank) ==
  LET breakpoint == Breakpoint(addr, bank) IN
  /\ bpCall' = Call("get", breakpoint, 0)
  /\ bpRet' = [NoRet EXCEPT !.flags = get(myMap, breakpoint)]
  /\ UNCHANGED <<myMap, myInitialized, liveKeys>>
  /\ UNCHANGED <<loopVars, smVars, ntVars>>

\* bool BreakpointMap::check(const uInt16 addr, const uInt8 bank) const
bpCheck(addr, bank) ==
  LET breakpoint == Breakpoint(addr, bank) IN
  /\ bpCall' = Call("check", breakpoint, 0)
  /\ bpRet' = [NoRet EXCEPT !.found = check(myMap, breakpoint)]
  /\ UNCHANGED <<myMap, myInitialized, liveKeys>>
  /\ UNCHANGED <<loopVars, smVars, ntVars>>

\* BreakpointList BreakpointMap::getBreakpoints() const
getBreakpoints ==
  /\ \E order \in Orders(myMap) :
       bpRet' = [NoRet EXCEPT !.list = [i \in 1..Cardinality(myMap) |-> order[i].first]]
  /\ bpCall' = Call("getBreakpoints", NoBreakpoint, 0)
  /\ UNCHANGED <<myMap, myInitialized, liveKeys>>
  /\ UNCHANGED <<loopVars, smVars, ntVars>>

\* void BreakpointMap::clear() { myMap.clear(); }
Cleared_KeepFirst(map) == IF map = {} THEN {} ELSE {CHOOSE n \in map : TRUE}
Cleared(map) == {}

clear ==
  /\ myMap' = Cleared(myMap)
  /\ liveKeys' = {}
  /\ bpCall' = Call("clear", NoBreakpoint, 0)
  /\ bpRet' = NoRet
  /\ UNCHANGED myInitialized
  /\ UNCHANGED <<loopVars, smVars, ntVars>>

BpNext ==
  \/ \E a \in AddrInputs, b \in BankInputs, f \in FlagInputs : add(a, b, f)
  \/ \E a \in AddrInputs, b \in BankInputs : erase(a, b)
  \/ \E a \in AddrInputs, b \in BankInputs : bpGet(a, b)
  \/ \E a \in AddrInputs, b \in BankInputs : bpCheck(a, b)
  \/ getBreakpoints
  \/ clear

(***************************************************************************)
(* OSystem::mainLoop, OSystem::dispatchEmulation and the EmulationWorker   *)
(***************************************************************************)
\* ticks of high_resolution_clock in one second
TicksPerSecond == 120
\* EmulationTiming::cyclesPerSecond() of the console
CyclesPerSecond == 9120
\* scanlines in one frame of the console
ScanlinesPerFrame == 2
\* cycles the worker executes in one burst
BurstCycles == 57
\* bursts the worker can execute between start() and stop()
MaxBursts == 3
\* the clock stops advancing at MaxTime
MaxTime == 7
\* DispatchResult objects the model lets the loop construct
MaxDispatch == 2

\* the 76 in scanlinesLastFrame() * 76
CyclesPerScanline == 76
\* the 60 in 1. / 60.
GuiRate == 60

\* EmulationTiming::cyclesPerFrame() of the console
CyclesPerFrame == ScanlinesPerFrame * CyclesPerScanline

EventHandlerStates == {"EMULATION", "PAUSE", "PLAYBACK", "LAUNCHER", "DEBUGGER"}
StatusValues == {"invalid", "ok", "debugger", "fatal"}

\* duration_cast<high_resolution_clock::duration>(duration<double>(seconds)), the
\* seconds given as the fraction seconds[1] / seconds[2]
DurationCast(seconds) == (seconds[1] * TicksPerSecond) \div seconds[2]

\* double maxLag
MaxLag(console) == IF console THEN <<CyclesPerFrame, CyclesPerSecond>> ELSE <<0, 1>>

\* duration_cast<duration<double>>(now - virtualTime).count() > maxLag
LagExceeds_TwoFrames(n, vt, maxLag) == (n - vt) * maxLag[2] > 2 * maxLag[1] * TicksPerSecond
LagExceeds(n, vt, maxLag) == (n - vt) * maxLag[2] > maxLag[1] * TicksPerSecond

\* the statements of dispatchEmulation after the construction of the DispatchResult
DispatchSteps_NoStop ==
  <<"d_pending", "d_render", "d_start", "d_present", "d_handle", "d_fry", "d_return">>
DispatchSteps_StartFirst ==
  <<"d_pending", "d_start", "d_render", "d_present", "d_stop", "d_handle", "d_fry", "d_return">>
DispatchSteps_HandleFirst ==
  <<"d_pending", "d_render", "d_start", "d_present", "d_handle", "d_stop", "d_fry", "d_return">>
\* a dispatch that handles the result, and enters the debugger, before it stops the worker
DispatchSteps_StopAfterFry ==
  <<"d_pending", "d_render", "d_start", "d_present", "d_handle", "d_fry", "d_stop", "d_return">>

DispatchSteps ==
  <<"d_pending", "d_render", "d_start", "d_present", "d_stop", "d_handle", "d_fry", "d_return">>

StepAfter(p) ==
  LET i == CHOOSE k \in 1..Len(DispatchSteps) : DispatchSteps[k] = p
  IN IF i < Len(DispatchSteps) THEN DispatchSteps[i + 1] ELSE "advance"

\* the statements of the foreground thread that read or write the TIA or the console
TIASteps == {"select", "d_pending", "d_render", "d_fry"}

NoResult == [id |-> 0, status |-> "invalid"]

\* no frying test made in the current dispatch
NoFry == [asked |-> FALSE, frying |-> FALSE, fried |-> FALSE]

\* mainLoop up to the for(;;)
LoopInit ==
  /\ pc = "top"
  /\ debuggerSupport \in BOOLEAN
  /\ ehState \in {"LAUNCHER", "EMULATION"}
  /\ myConsole = (ehState = "EMULATION")
  /\ wasEmulation = FALSE
  /\ myQuitLoop = FALSE
  /\ wall = 0
  /\ virtualTime = 0
  /\ now = 0
  /\ timeslice = <<0, 1>>
  /\ framePending = FALSE
  /\ frameCopied = FALSE
  /\ dispatchResult = NoResult
  /\ nextResultId = 0
  /\ totalCycles = 0
  /\ workerStarted = FALSE
  /\ workerResult = 0
  /\ workerCycles = 0
  /\ workerFault = "none"
  /\ startLog = <<>>
  /\ iterCalls = <<>>
  /\ drReads = {}
  /\ resyncDrop = 0
  /\ cheatSupport \in BOOLEAN
  /\ cheatFlushes = <<>>
  /\ fatalPending = FALSE
  /\ fry = NoFry
  /\ iterSteps = <<>>

\* bool wasEmulation = myEventHandler->state() == EventHandlerState::EMULATION;
LoopTop ==
  /\ pc = "top"
  /\ wasEmulation' = (ehState = "EMULATION")
  /\ iterCalls' = <<>>
  /\ drReads' = {}
  /\ iterSteps' = <<>>
  /\ pc' = "poll"
  /\ UNCHANGED <<bpVars, smVars, ntVars>>
  /\ UNCHANGED <<cheatSupport, cheatFlushes, fatalPending, fry>>
  /\ UNCHANGED <<ehState, myQuitLoop, myConsole, debuggerSupport, wall, virtualTime, now,
                 timeslice, framePending, frameCopied, dispatchResult, nextResultId,
                 totalCycles, workerStarted, workerResult, workerCycles, workerFault,
                 startLog, resyncDrop>>

\* a loop that polls and goes on without testing the quit flag
Poll_IgnoreQuit ==
  /\ pc = "poll"
  /\ \E s \in EventHandlerStates, c \in BOOLEAN, q \in BOOLEAN :
       /\ s \in {"PLAYBACK", "DEBUGGER"} => c
       /\ s = "DEBUGGER" => debuggerSupport
       /\ ehState' = s
       /\ myConsole' = c
       /\ myQuitLoop' = q
       \* an event that changes the state, the console or quits is an action of the user
       /\ fatalPending' = (fatalPending /\ s = ehState /\ c = myConsole /\ ~q)
       /\ pc' = "enter"
  /\ UNCHANGED <<bpVars, smVars, ntVars>>
  /\ UNCHANGED iterSteps
  /\ UNCHANGED <<cheatSupport, cheatFlushes, fry>>
  /\ UNCHANGED <<wasEmulation, debuggerSupport, wall, virtualTime, now, timeslice,
                 framePending, frameCopied, dispatchResult, nextResultId, totalCycles,
                 workerStarted, workerResult, workerCycles, workerFault, startLog,
                 iterCalls, drReads, resyncDrop>>

\* myEventHandler->poll(...); if(myQuitLoop) break;
Poll ==
  /\ pc = "poll"
  /\ \E s \in EventHandlerStates, c \in BOOLEAN, q \in BOOLEAN :
       /\ s \in {"PLAYBACK", "DEBUGGER"} => c
       /\ s = "DEBUGGER" => debuggerSupport
       /\ ehState' = s
       /\ myConsole' = c
       /\ myQuitLoop' = q
       \* an event that changes the state, the console or quits is an action of the user
       /\ fatalPending' = (fatalPending /\ s = ehState /\ c = myConsole /\ ~q)
       /\ pc' = IF q THEN "cleanup" ELSE "enter"
  /\ UNCHANGED <<bpVars, smVars, ntVars>>
  /\ UNCHANGED iterSteps
  /\ UNCHANGED <<cheatSupport, cheatFlushes, fry>>
  /\ UNCHANGED <<wasEmulation, debuggerSupport, wall, virtualTime, now, timeslice,
                 framePending, frameCopied, dispatchResult, nextResultId, totalCycles,
                 workerStarted, workerResult, workerCycles, workerFault, startLog,
                 iterCalls, drReads, resyncDrop>>

\* a loop that resets virtual time and the FPS meter in every iteration
EnterEmulation_Always ==
  /\ pc = "enter"
  /\ virtualTime' = wall
  /\ iterSteps' = Append(iterSteps, "fpsReset")
  /\ pc' = "select"
  /\ UNCHANGED <<bpVars, smVars, ntVars>>
  /\ UNCHANGED <<cheatSupport, cheatFlushes, fatalPending, fry>>
  /\ UNCHANGED <<ehState, wasEmulation, myQuitLoop, myConsole, debuggerSupport, wall, now,
                 timeslice, framePending, frameCopied, dispatchResult, nextResultId,
                 totalCycles, workerStarted, workerResult, workerCycles, workerFault,
                 startLog, iterCalls, drReads, resyncDrop>>

\* if (!wasEmulation && state() == EMULATION) { myFpsMeter.reset(); virtualTime = now(); }
EnterEmulation ==
  /\ pc = "enter"
  /\ virtualTime' = IF ~wasEmulation /\ ehState = "EMULATION" THEN wall ELSE virtualTime
  /\ iterSteps' = IF ~wasEmulation /\ ehState = "EMULATION"
                  THEN Append(iterSteps, "fpsReset") ELSE iterSteps
  /\ pc' = "select"
  /\ UNCHANGED <<bpVars, smVars, ntVars>>
  /\ UNCHANGED <<cheatSupport, cheatFlushes, fatalPending, fry>>
  /\ UNCHANGED <<ehState, wasEmulation, myQuitLoop, myConsole, debuggerSupport, wall, now,
                 timeslice, framePending, frameCopied, dispatchResult, nextResultId,
                 totalCycles, workerStarted, workerResult, workerCycles, workerFault,
                 startLog, iterCalls, drReads, resyncDrop>>

\* a selection that also dispatches the emulation while it is paused
Select_DispatchInPause ==
  /\ pc = "select"
  /\ \/ /\ ehState \in {"EMULATION", "PAUSE"}
        /\ pc' = "d_entry"
        /\ iterSteps' = Append(iterSteps, "dispatch")
        /\ UNCHANGED timeslice
     \/ /\ ehState = "PLAYBACK"
        /\ \E scanlinesLastFrame \in 0..ScanlinesPerFrame :
             timeslice' = <<scanlinesLastFrame * CyclesPerScanline, CyclesPerSecond>>
        /\ iterSteps' = Append(iterSteps, "playback")
        /\ pc' = "advance"
     \/ /\ ehState \notin {"EMULATION", "PLAYBACK", "PAUSE"}
        /\ timeslice' = <<1, GuiRate>>
        /\ iterSteps' = Append(iterSteps, "gui")
        /\ pc' = "advance"
  /\ UNCHANGED <<bpVars, smVars, ntVars>>
  /\ UNCHANGED <<cheatSupport, cheatFlushes, fatalPending, fry>>
  /\ UNCHANGED <<ehState, wasEmulation, myQuitLoop, myConsole, debuggerSupport, wall,
                 virtualTime, now, framePending, frameCopied, dispatchResult,
                 nextResultId, totalCycles, workerStarted, workerResult, workerCycles,
                 workerFault, startLog, iterCalls, drReads, resyncDrop>>

\* the if / else if / else on myEventHandler->state(): dispatchEmulation is called, or
\* the frame buffer is updated for the playback, or for the GUI
Select ==
  /\ pc = "select"
  /\ \/ /\ ehState = "EMULATION"
        /\ pc' = "d_entry"
        /\ iterSteps' = Append(iterSteps, "dispatch")
        /\ UNCHANGED timeslice
     \/ /\ ehState = "PLAYBACK"
        /\ \E scanlinesLastFrame \in 0..ScanlinesPerFrame :
             timeslice' = <<scanlinesLastFrame * CyclesPerScanline, CyclesPerSecond>>
        /\ iterSteps' = Append(iterSteps, "playback")
        /\ pc' = "advance"
     \/ /\ ehState \notin {"EMULATION", "PLAYBACK"}
        /\ timeslice' = <<1, GuiRate>>
        /\ iterSteps' = Append(iterSteps, "gui")
        /\ pc' = "advance"
  /\ UNCHANGED <<bpVars, smVars, ntVars>>
  /\ UNCHANGED <<cheatSupport, cheatFlushes, fatalPending, fry>>
  /\ UNCHANGED <<ehState, wasEmulation, myQuitLoop, myConsole, debuggerSupport, wall,
                 virtualTime, now, framePending, frameCopied, dispatchResult,
                 nextResultId, totalCycles, workerStarted, workerResult, workerCycles,
                 workerFault, startLog, iterCalls, drReads, resyncDrop>>

\* if (!myConsole) return 0.;  ...  DispatchResult dispatchResult;
DispatchEntry ==
  /\ pc = "d_entry"
  /\ IF ~myConsole
     THEN /\ timeslice' = <<0, 1>>
          /\ pc' = "advance"
          /\ UNCHANGED <<dispatchResult, nextResultId, frameCopied>>
     ELSE /\ nextResultId < MaxDispatch
          /\ dispatchResult' = [id |-> nextResultId + 1, status |-> "invalid"]
          /\ nextResultId' = nextResultId + 1
          /\ frameCopied' = FALSE
          /\ pc' = DispatchSteps[1]
          /\ UNCHANGED timeslice
  /\ UNCHANGED <<bpVars, smVars, ntVars>>
  /\ UNCHANGED iterSteps
  /\ UNCHANGED <<cheatSupport, cheatFlushes, fatalPending, fry>>
  /\ UNCHANGED <<ehState, wasEmulation, myQuitLoop, myConsole, debuggerSupport, wall,
                 virtualTime, now, framePending, totalCycles, workerStarted, workerResult,
                 workerCycles, workerFault, startLog, iterCalls, drReads, resyncDrop>>

\* bool framePending = tia.newFramePending();
DispatchPending ==
  /\ pc = "d_pending"
  /\ framePending' \in BOOLEAN
  /\ pc' = StepAfter("d_pending")
  /\ UNCHANGED <<bpVars, smVars, ntVars>>
  /\ UNCHANGED iterSteps
  /\ UNCHANGED <<cheatSupport, cheatFlushes, fatalPending, fry>>
  /\ UNCHANGED <<ehState, wasEmulation, myQuitLoop, myConsole, debuggerSupport, wall,
                 virtualTime, now, timeslice, frameCopied, dispatchResult, nextResultId,
                 totalCycles, workerStarted, workerResult, workerCycles, workerFault,
                 startLog, iterCalls, drReads, resyncDrop>>

\* if (framePending) { myFpsMeter.render(...); tia.renderToFrameBuffer(); }
DispatchRender ==
  /\ pc = "d_render"
  /\ frameCopied' = framePending
  /\ pc' = StepAfter("d_render")
  /\ UNCHANGED <<bpVars, smVars, ntVars>>
  /\ UNCHANGED iterSteps
  /\ UNCHANGED <<cheatSupport, cheatFlushes, fatalPending, fry>>
  /\ UNCHANGED <<ehState, wasEmulation, myQuitLoop, myConsole, debuggerSupport, wall,
                 virtualTime, now, timeslice, framePending, dispatchResult, nextResultId,
                 totalCycles, workerStarted, workerResult, workerCycles, workerFault,
                 startLog, iterCalls, drReads, resyncDrop>>

\* EmulationWorker::start(cyclesPerSecond, maxCycles, minCycles, dispatchResult, tia):
\* fails when the worker is already started
EmulationWorker_start(result) ==
  IF workerStarted
  THEN /\ workerFault' = "start"
       /\ UNCHANGED <<workerStarted, workerResult, workerCycles>>
  ELSE /\ workerStarted' = TRUE
       /\ workerResult' = result
       /\ workerCycles' = 0
       /\ UNCHANGED workerFault

\* emulationWorker.start(..., &dispatchResult, &tia);
DispatchStart ==
  /\ pc = "d_start"
  /\ EmulationWorker_start(dispatchResult.id)
  /\ pc' = IF workerFault' = "none" THEN StepAfter("d_start") ELSE "failed"
  /\ startLog' = Append(startLog, dispatchResult.id)
  /\ iterCalls' = Append(iterCalls, "start")
  /\ UNCHANGED <<bpVars, smVars, ntVars>>
  /\ UNCHANGED iterSteps
  /\ UNCHANGED <<cheatSupport, cheatFlushes, fatalPending, fry>>
  /\ UNCHANGED <<ehState, wasEmulation, myQuitLoop, myConsole, debuggerSupport, wall,
                 virtualTime, now, timeslice, framePending, frameCopied, dispatchResult,
                 nextResultId, totalCycles, drReads, resyncDrop>>

\* if (framePending) myFrameBuffer->updateInEmulationMode(myFpsMeter.fps());
DispatchPresent ==
  /\ pc = "d_present"
  /\ pc' = StepAfter("d_present")
  /\ UNCHANGED <<bpVars, smVars, ntVars>>
  /\ UNCHANGED iterSteps
  /\ UNCHANGED <<cheatSupport, cheatFlushes, fatalPending, fry>>
  /\ UNCHANGED <<ehState, wasEmulation, myQuitLoop, myConsole, debuggerSupport, wall,
                 virtualTime, now, timeslice, framePending, frameCopied, dispatchResult,
                 nextResultId, totalCycles, workerStarted, workerResult, workerCycles,
                 workerFault, startLog, iterCalls, drReads, resyncDrop>>

\* uInt64 EmulationWorker::stop(): fails when the worker is not started; otherwise waits
\* for the worker thread, which has published its outcome by then, and returns the
\* cycles executed since start()
EmulationWorker_stop ==
  IF ~workerStarted
  THEN /\ workerFault' = "stop"
       /\ UNCHANGED <<workerStarted, totalCycles, dispatchResult>>
  ELSE /\ workerStarted' = FALSE
       /\ totalCycles' = workerCycles
       /\ dispatchResult' =
            IF workerResult = dispatchResult.id /\ dispatchResult.status = "invalid"
            THEN [dispatchResult EXCEPT !.status = "ok"]
            ELSE dispatchResult
       /\ UNCHANGED workerFault

\* uInt64 totalCycles = emulationWorker.stop();
DispatchStop ==
  /\ pc = "d_stop"
  /\ EmulationWorker_stop
  /\ pc' = IF workerFault' = "none" THEN StepAfter("d_stop") ELSE "failed"
  /\ iterCalls' = Append(iterCalls, "stop")
  /\ UNCHANGED <<bpVars, smVars, ntVars>>
  /\ UNCHANGED iterSteps
  /\ UNCHANGED <<cheatSupport, cheatFlushes, fatalPending, fry>>
  /\ UNCHANGED <<ehState, wasEmulation, myQuitLoop, myConsole, debuggerSupport, wall,
                 virtualTime, now, timeslice, framePending, frameCopied, nextResultId,
                 workerResult, workerCycles, startLog, drReads, resyncDrop>>

\* a read of one field of dispatchResult by the controller
Read(field) ==
  [field |-> field, id |-> dispatchResult.id, running |-> workerStarted,
   status |-> dispatchResult.status]

\* myDebugger->start(...) / startWithFatalError(...) in a build with the debugger, which
\* puts the event handler into the debugger state; nothing in a build without it
Debugger_start(support, state) == IF support THEN "DEBUGGER" ELSE state

\* switch (dispatchResult.getStatus()) { ... }
DispatchHandle ==
  /\ pc = "d_handle"
  /\ \/ /\ dispatchResult.status = "ok"
        /\ drReads' = drReads \cup {Read("status")}
        /\ pc' = StepAfter("d_handle")
        /\ fatalPending' = FALSE
        /\ UNCHANGED ehState
     \/ /\ dispatchResult.status = "debugger"
        /\ drReads' = drReads \cup
             (IF debuggerSupport
              THEN {Read("status"), Read("message"), Read("address"), Read("wasReadTrap"),
                    Read("toolTip")}
              ELSE {Read("status")})
        /\ ehState' = Debugger_start(debuggerSupport, ehState)
        /\ fatalPending' = FALSE
        /\ pc' = StepAfter("d_handle")
     \/ /\ dispatchResult.status = "fatal"
        /\ drReads' = drReads \cup {Read("status"), Read("message")}
        /\ ehState' = Debugger_start(debuggerSupport, ehState)
        /\ fatalPending' = TRUE
        /\ pc' = StepAfter("d_handle")
     \/ /\ dispatchResult.status \notin {"ok", "debugger", "fatal"}
        /\ drReads' = drReads \cup {Read("status")}
        /\ pc' = "failed"
        /\ fatalPending' = FALSE
        /\ UNCHANGED ehState
  /\ UNCHANGED <<bpVars, smVars, ntVars>>
  /\ UNCHANGED iterSteps
  /\ UNCHANGED <<cheatSupport, cheatFlushes, fry>>
  /\ UNCHANGED <<wasEmulation, myQuitLoop, myConsole, debuggerSupport, wall, virtualTime,
                 now, timeslice, framePending, frameCopied, dispatchResult, nextResultId,
                 totalCycles, workerStarted, workerResult, workerCycles, workerFault,
                 startLog, iterCalls, resyncDrop>>

\* a frying test that does not look at the status
DispatchFry_AnyStatus ==
  /\ pc = "d_fry"
  /\ drReads' = drReads \cup {Read("status")}
  /\ \E frying \in BOOLEAN : fry' = [asked |-> TRUE, frying |-> frying, fried |-> frying]
  /\ pc' = StepAfter("d_fry")
  /\ UNCHANGED <<bpVars, smVars, ntVars>>
  /\ UNCHANGED iterSteps
  /\ UNCHANGED <<cheatSupport, cheatFlushes, fatalPending>>
  /\ UNCHANGED <<ehState, wasEmulation, myQuitLoop, myConsole, debuggerSupport, wall,
                 virtualTime, now, timeslice, framePending, frameCopied, dispatchResult,
                 nextResultId, totalCycles, workerStarted, workerResult, workerCycles,
                 workerFault, startLog, iterCalls, resyncDrop>>

\* if (getStatus() == ok && myEventHandler->frying()) myConsole->fry();
\* frying() is what the event handler reports; it is asked only after an ok status
DispatchFry ==
  /\ pc = "d_fry"
  /\ drReads' = drReads \cup {Read("status")}
  /\ IF dispatchResult.status = "ok"
     THEN \E frying \in BOOLEAN : fry' = [asked |-> TRUE, frying |-> frying, fried |-> frying]
     ELSE fry' = NoFry
  /\ pc' = StepAfter("d_fry")
  /\ UNCHANGED <<bpVars, smVars, ntVars>>
  /\ UNCHANGED iterSteps
  /\ UNCHANGED <<cheatSupport, cheatFlushes, fatalPending>>
  /\ UNCHANGED <<ehState, wasEmulation, myQuitLoop, myConsole, debuggerSupport, wall,
                 virtualTime, now, timeslice, framePending, frameCopied, dispatchResult,
                 nextResultId, totalCycles, workerStarted, workerResult, workerCycles,
                 workerFault, startLog, iterCalls, resyncDrop>>

\* a dispatch that reports a whole frame whatever the worker executed
DispatchReturn_FullFrame ==
  /\ pc = "d_return"
  /\ timeslice' = <<CyclesPerFrame, CyclesPerSecond>>
  /\ pc' = StepAfter("d_return")
  \* the locals of dispatchEmulation end with the call
  /\ framePending' = FALSE
  /\ frameCopied' = FALSE
  /\ dispatchResult' = NoResult
  /\ totalCycles' = 0
  /\ UNCHANGED <<bpVars, smVars, ntVars>>
  /\ UNCHANGED iterSteps
  /\ fry' = NoFry
  /\ UNCHANGED <<cheatSupport, cheatFlushes, fatalPending>>
  /\ UNCHANGED <<ehState, wasEmulation, myQuitLoop, myConsole, debuggerSupport, wall,
                 virtualTime, now, nextResultId, workerStarted, workerResult,
                 workerCycles, workerFault, startLog, iterCalls, drReads, resyncDrop>>

\* return static_cast<double>(totalCycles) / static_cast<double>(timing.cyclesPerSecond());
DispatchReturn ==
  /\ pc = "d_return"
  /\ timeslice' = <<totalCycles, CyclesPerSecond>>
  /\ pc' = StepAfter("d_return")
  \* the locals of dispatchEmulation end with the call
  /\ framePending' = FALSE
  /\ frameCopied' = FALSE
  /\ dispatchResult' = NoResult
  /\ totalCycles' = 0
  /\ UNCHANGED <<bpVars, smVars, ntVars>>
  /\ UNCHANGED iterSteps
  /\ fry' = NoFry
  /\ UNCHANGED <<cheatSupport, cheatFlushes, fatalPending>>
  /\ UNCHANGED <<ehState, wasEmulation, myQuitLoop, myConsole, debuggerSupport, wall,
                 virtualTime, now, nextResultId, workerStarted, workerResult,
                 workerCycles, workerFault, startLog, iterCalls, drReads, resyncDrop>>

\* virtualTime += duration_cast<...>(timeslice); now = high_resolution_clock::now();
Advance ==
  /\ pc = "advance"
  /\ virtualTime' = virtualTime + DurationCast(timeslice)
  /\ now' = wall
  /\ pc' = "reconcile"
  /\ UNCHANGED <<bpVars, smVars, ntVars>>
  /\ UNCHANGED iterSteps
  /\ UNCHANGED <<cheatSupport, cheatFlushes, fatalPending, fry>>
  /\ UNCHANGED <<ehState, wasEmulation, myQuitLoop, myConsole, debuggerSupport, wall,
                 timeslice, framePending, frameCopied, dispatchResult, nextResultId,
                 totalCycles, workerStarted, workerResult, workerCycles, workerFault,
                 startLog, iterCalls, drReads, resyncDrop>>

\* if (lag > maxLag) virtualTime = now; else if (virtualTime > now) sleep_until(virtualTime);
Reconcile ==
  /\ pc = "reconcile"
  /\ IF LagExceeds(now, virtualTime, MaxLag(myConsole))
     THEN /\ virtualTime' = now
          /\ resyncDrop' = now - virtualTime
          /\ pc' = "top"
     ELSE /\ UNCHANGED virtualTime
          /\ resyncDrop' = 0
          /\ pc' = IF virtualTime > now THEN "sleep" ELSE "top"
  \* timesliceSeconds ends with the iteration
  /\ timeslice' = <<0, 1>>
  /\ UNCHANGED <<bpVars, smVars, ntVars>>
  /\ UNCHANGED iterSteps
  /\ UNCHANGED <<cheatSupport, cheatFlushes, fatalPending, fry>>
  /\ UNCHANGED <<ehState, wasEmulation, myQuitLoop, myConsole, debuggerSupport, wall, now,
                 framePending, frameCopied, dispatchResult, nextResultId,
                 totalCycles, workerStarted, workerResult, workerCycles, workerFault,
                 startLog, iterCalls, drReads>>

\* a wait that returns before the deadline
Sleep_Early ==
  /\ pc = "sleep"
  /\ pc' = "top"
  /\ UNCHANGED <<bpVars, smVars, ntVars>>
  /\ UNCHANGED iterSteps
  /\ UNCHANGED <<cheatSupport, cheatFlushes, fatalPending, fry>>
  /\ UNCHANGED <<ehState, wasEmulation, myQuitLoop, myConsole, debuggerSupport, wall,
                 virtualTime, now, timeslice, framePending, frameCopied, dispatchResult,
                 nextResultId, totalCycles, workerStarted, workerResult, workerCycles,
                 workerFault, startLog, iterCalls, drReads, resyncDrop>>

\* std::this_thread::sleep_until(virtualTime) returns
Sleep ==
  /\ pc = "sleep"
  /\ wall >= virtualTime
  /\ pc' = "top"
  /\ UNCHANGED <<bpVars, smVars, ntVars>>
  /\ UNCHANGED iterSteps
  /\ UNCHANGED <<cheatSupport, cheatFlushes, fatalPending, fry>>
  /\ UNCHANGED <<ehState, wasEmulation, myQuitLoop, myConsole, debuggerSupport, wall,
                 virtualTime, now, timeslice, framePending, frameCopied, dispatchResult,
                 nextResultId, totalCycles, workerStarted, workerResult, workerCycles,
                 workerFault, startLog, iterCalls, drReads, resyncDrop>>

\* the cleanup after the loop
Cleanup ==
  /\ pc = "cleanup"
  /\ pc' = "done"
  /\ cheatFlushes' =
       IF cheatSupport
       THEN cheatFlushes \o (IF myConsole THEN <<"saveCheats">> ELSE <<>>)
                         \o <<"saveCheatDatabase">>
       ELSE cheatFlushes
  /\ UNCHANGED <<bpVars, smVars, ntVars>>
  /\ UNCHANGED iterSteps
  /\ UNCHANGED <<cheatSupport, fatalPending, fry>>
  /\ UNCHANGED <<ehState, wasEmulation, myQuitLoop, myConsole, debuggerSupport, wall,
                 virtualTime, now, timeslice, framePending, frameCopied, dispatchResult,
                 nextResultId, totalCycles, workerStarted, workerResult, workerCycles,
                 workerFault, startLog, iterCalls, drReads, resyncDrop>>

\* the clock advances; it is read by EnterEmulation, Advance and Sleep only, so the
\* model lets it advance just before these
Tick ==
  /\ pc \in {"enter", "advance", "sleep"}
  /\ wall < MaxTime
  /\ wall' = wall + 1
  /\ UNCHANGED <<bpVars, smVars, ntVars>>
  /\ UNCHANGED iterSteps
  /\ UNCHANGED <<cheatSupport, cheatFlushes, fatalPending, fry>>
  /\ UNCHANGED <<pc, ehState, wasEmulation, myQuitLoop, myConsole, debuggerSupport,
                 virtualTime, now, timeslice, framePending, frameCopied, dispatchResult,
                 nextResultId, totalCycles, workerStarted, workerResult, workerCycles,
                 workerFault, startLog, iterCalls, drReads, resyncDrop>>

\* the worker thread executes one burst on the TIA and publishes the outcome
WorkerBurst ==
  /\ workerStarted
  /\ dispatchResult.status \in {"invalid", "ok"}
  /\ workerCycles < MaxBursts * BurstCycles
  /\ workerCycles' = workerCycles + BurstCycles
  /\ \E st \in {"ok", "debugger", "fatal"} :
       dispatchResult' = IF workerResult = dispatchResult.id
                         THEN [dispatchResult EXCEPT !.status = st]
                         ELSE dispatchResult
  /\ UNCHANGED <<bpVars, smVars, ntVars>>
  /\ UNCHANGED iterSteps
  /\ UNCHANGED <<cheatSupport, cheatFlushes, fatalPending, fry>>
  /\ UNCHANGED <<pc, ehState, wasEmulation, myQuitLoop, myConsole, debuggerSupport, wall,
                 virtualTime, now, timeslice, framePending, frameCopied, nextResultId,
                 totalCycles, workerStarted, workerResult, workerFault, startLog,
                 iterCalls, drReads, resyncDrop>>

LoopNext ==
  \/ LoopTop
  \/ Poll
  \/ EnterEmulation
  \/ Select
  \/ DispatchEntry
  \/ DispatchPending
  \/ DispatchRender
  \/ DispatchStart
  \/ DispatchPresent
  \/ DispatchStop
  \/ DispatchHandle
  \/ DispatchFry
  \/ DispatchReturn
  \/ Advance
  \/ Reconcile
  \/ Sleep
  \/ Cleanup
  \/ Tick
  \/ WorkerBurst

\* ---------------------------------------------------------------------------
\* StateManager: the Time Machine mode and the numbered state slots

\* number of live console states the model distinguishes, minus one
MaxMachine == 1

\* capacity of the rewind history
MaxHistory == 2

STATE_HEADER == "05099100state"

\* myCurrentSlot = (slot + 1) % 10
SlotCount == 10

\* myOSystem.console().cartridge().name()
CartridgeName == "cart"

\* the slots of 0..9 whose file the file system lets exist
TrackedSlots == {0, SlotCount - 1}

\* the slot arguments of the callers
SlotArgs == {-1} \cup TrackedSlots \cup {SlotCount}

\* the largest value of the int slot argument
INT_MAX == 2147483647

\* the slots whose file the file system lets exist: the tracked ones and the largest
\* slot; opening any other slot's file fails
FileSlots == TrackedSlots \cup {INT_MAX}

\* the slot arguments of the callers, up to the largest int
WideSlotArgs == {-1, 0, INT_MAX}

\* a % b of C++ for b > 0: the result has the sign of a
Rem(a, b) == IF a >= 0 THEN a % b ELSE -((-a) % b)

\* (slot + 1) % 10 for slot = INT_MAX: slot + 1 overflows a signed int, which is
\* undefined; a build that wraps gets INT_MIN % 10 = -8, one that computes in a wider
\* register 2147483648 % 10 = 8
OverflowedSlots == {-8, 8}

\* a resolution that ignores the argument
Slot_AlwaysCurrent(slotArg, current) == current

\* if(slot < 0) slot = myCurrentSlot;
Slot(slotArg, current) == IF slotArg < 0 THEN current ELSE slotArg

SettingKeys == {"dev.settings", "dev.timemachine", "plr.timemachine", "autoslot"}

\* getBool("dev.settings") ? "dev.timemachine" : "plr.timemachine"
TimeMachineKey_AlwaysDev(s) == "dev.timemachine"

TimeMachineKey(s) == IF s["dev.settings"] THEN "dev.timemachine" ELSE "plr.timemachine"

\* a console test that only looks for the console object
hasConsole_ObjectOnly == myConsole

\* bool OSystem::hasConsole() const
hasConsole == myConsole /\ ehState # "LAUNCHER"

\* Console::save writes the console state as the body of the stream
Body(state) == [valid |-> TRUE, state |-> state]

\* a body Console::load rejects
CorruptBody == [valid |-> FALSE, state |-> 0]

NoFile == [exists |-> FALSE, data |-> <<>>]

File(data) == [exists |-> TRUE, data |-> data]

\* the content of the file  <stateDir><Cartridge_Name>.st<slot>
FileAt(fs, slot) == IF slot \in FileSlots THEN fs[slot] ELSE NoFile

\* files that did not come from a save of this cartridge by this program
ForeignFiles ==
  { File(<<"other", "other", Body(0)>>),
    File(<<STATE_HEADER, "other", Body(0)>>),
    File(<<STATE_HEADER, CartridgeName, CorruptBody>>),
    NoFile }

NoMessage == [text |-> "", slot |-> -1, next |-> -1]

Message(text, slot, next) == [text |-> text, slot |-> slot, next |-> next]

NoCall == [op |-> "", arg |-> -1, slot |-> -1, opened |-> FALSE, consoleLoad |-> FALSE,
           read |-> 0, adds |-> <<>>, message |-> NoMessage, changed |-> {},
           current |-> 0, cursor |-> 0, ret |-> FALSE, stream |-> <<>>, winds |-> <<>>,
           flag |-> FALSE]

\* what a step changes of the StateManager, the live console and the state files
Changed ==
  {v \in {"machine", "mode", "slot", "history", "settings", "files"} :
     \/ v = "machine" /\ machine' # machine
     \/ v = "mode" /\ myActiveMode' # myActiveMode
     \/ v = "slot" /\ myCurrentSlot' # myCurrentSlot
     \/ v = "history" /\ myRewindManager' # myRewindManager
     \/ v = "settings" /\ settings' # settings
     \/ v = "files" /\ files' # files}

\* op(arg) used the file of slot, opened it or not, called Console::load or not, read
\* so many items of the file, made these addState calls, showed this message and
\* changed these parts of the state; it found the current slot and the rewind cursor at
\* these values; where it applies, what it returned, the stream it was handed as the
\* call left it, and the calls it forwarded to the RewindManager
SmCall(op, arg, slot, opened, consoleLoad, read, adds, msg) ==
  [op |-> op, arg |-> arg, slot |-> slot, opened |-> opened, consoleLoad |-> consoleLoad,
   read |-> read, adds |-> adds, message |-> msg, changed |-> Changed,
   current |-> myCurrentSlot, cursor |-> myRewindManager.cursor, ret |-> FALSE,
   stream |-> <<>>, winds |-> <<>>, flag |-> FALSE]

NoHistory == [states |-> <<>>, cursor |-> 0]

\* RewindManager::clear
RewindManager_clear == NoHistory

\* RewindManager::addState(label, continuous): the snapshot of the live console goes in
\* after the cursor, what lay beyond the cursor is dropped, the oldest entry is evicted
\* when the history is full, and the cursor denotes the new entry
RewindManager_addState(r, state, label, continuous) ==
  LET grown == SubSeq(r.states, 1, r.cursor)
                 \o <<[state |-> state, label |-> label, continuous |-> continuous]>>
      kept  == IF Len(grown) > MaxHistory
               THEN SubSeq(grown, Len(grown) - MaxHistory + 1, Len(grown))
               ELSE grown
  IN [states |-> kept, cursor |-> Len(kept)]

\* Console::load(in): restores the whole console state from the body, or fails (returns
\* false or throws) and leaves the live console as it was
Console_load(data, live) ==
  IF Len(data) >= 3 /\ data[3].valid
  THEN [ok |-> TRUE, machine |-> data[3].state]
  ELSE [ok |-> FALSE, machine |-> live]

LoadResult(text, state, consoleLoad, read) ==
  [text |-> text, machine |-> state, consoleLoad |-> consoleLoad, read |-> read]

\* a load that goes to the console without comparing the cartridge name
LoadOutcome_NoNameCheck(data, live) ==
  IF Len(data) < 1 THEN LoadResult("Invalid data in state file", live, FALSE, 0)
  ELSE IF data[1] # STATE_HEADER THEN LoadResult("Incompatible state file", live, FALSE, 1)
  ELSE IF Len(data) < 2 THEN LoadResult("Invalid data in state file", live, FALSE, 1)
  ELSE LET r == Console_load(data, live)
       IN IF r.ok THEN LoadResult("State loaded", r.machine, TRUE, Len(data))
          ELSE LoadResult("Invalid data in state file", r.machine, TRUE, Len(data))

\* a load that reads both strings and compares the cartridge name before the header
LoadOutcome_NameFirst(data, live) ==
  IF Len(data) < 2 THEN LoadResult("Invalid data in state file", live, FALSE, Len(data))
  ELSE IF data[2] # CartridgeName
  THEN LoadResult("State file doesn't match current ROM", live, FALSE, 2)
  ELSE IF data[1] # STATE_HEADER THEN LoadResult("Incompatible state file", live, FALSE, 2)
  ELSE LET r == Console_load(data, live)
       IN IF r.ok THEN LoadResult("State loaded", r.machine, TRUE, Len(data))
          ELSE LoadResult("Invalid data in state file", r.machine, TRUE, Len(data))

\* a load that reports success whatever Console::load returned
LoadOutcome_IgnoreResult(data, live) ==
  IF Len(data) < 1 THEN LoadResult("Invalid data in state file", live, FALSE, 0)
  ELSE IF data[1] # STATE_HEADER THEN LoadResult("Incompatible state file", live, FALSE, 1)
  ELSE IF Len(data) < 2 THEN LoadResult("Invalid data in state file", live, FALSE, 1)
  ELSE IF data[2] # CartridgeName
  THEN LoadResult("State file doesn't match current ROM", live, FALSE, 2)
  ELSE LET r == Console_load(data, live)
       IN LoadResult("State loaded", r.machine, TRUE, Len(data))

\* try { if(in.getString() != STATE_HEADER) ... else if(in.getString() != name) ...
\*       else if(console().load(in)) ... else ... } catch(...) { ... }
\* getString on an exhausted stream throws
LoadOutcome(data, live) ==
  IF Len(data) < 1 THEN LoadResult("Invalid data in state file", live, FALSE, 0)
  ELSE IF data[1] # STATE_HEADER THEN LoadResult("Incompatible state file", live, FALSE, 1)
  ELSE IF Len(data) < 2 THEN LoadResult("Invalid data in state file", live, FALSE, 1)
  ELSE IF data[2] # CartridgeName
  THEN LoadResult("State file doesn't match current ROM", live, FALSE, 2)
  ELSE LET r == Console_load(data, live)
       IN IF r.ok THEN LoadResult("State loaded", r.machine, TRUE, Len(data))
          ELSE LoadResult("Invalid data in state file", r.machine, TRUE, Len(data))

\* where a save can fail: opening the file, putString of the header, putString of the
\* name, Console::save of the body
SaveFaults == {"none", "open", "header", "name", "body"}

\* a save that writes the cartridge name before the header
Written_NameFirst(fault, state) ==
  IF fault = "header" THEN File(<<>>)
  ELSE IF fault = "name" THEN File(<<CartridgeName>>)
  ELSE IF fault = "body" THEN File(<<CartridgeName, STATE_HEADER>>)
  ELSE File(<<CartridgeName, STATE_HEADER, Body(state)>>)

\* a save whose file is complete although Console::save reported a failure
Written_BodyAnyway(fault, state) ==
  IF fault = "header" THEN File(<<>>)
  ELSE IF fault = "name" THEN File(<<STATE_HEADER>>)
  ELSE File(<<STATE_HEADER, CartridgeName, Body(state)>>)

\* what the file holds after a save that went as far as the fault
Written(fault, state) ==
  IF fault = "header" THEN File(<<>>)
  ELSE IF fault = "name" THEN File(<<STATE_HEADER>>)
  ELSE IF fault = "body" THEN File(<<STATE_HEADER, CartridgeName>>)
  ELSE File(<<STATE_HEADER, CartridgeName, Body(state)>>)

\* a save that moves to the next slot whether or not the console was saved
SlotAfterSave_Always(fault, autoslot, slot, current) ==
  IF autoslot /\ fault # "open" THEN (slot + 1) % SlotCount ELSE current

\* if(console().save(out)) { ... if(getBool("autoslot")) myCurrentSlot = (slot + 1) % 10; }
SlotAfterSave(fault, autoslot, slot, current) ==
  IF fault = "none" /\ autoslot THEN Rem(slot + 1, SlotCount) ELSE current

\* the message saveState shows
SaveMessage(fault, autoslot, slot) ==
  IF fault = "open" THEN Message("Can't open/save to state file", slot, -1)
  ELSE IF fault = "none" THEN Message("State saved", slot, IF autoslot THEN slot ELSE -1)
  ELSE Message("Error saving state", slot, -1)

\* StateManager::StateManager: slot 0, mode Off, a new RewindManager, then reset()
SmInit ==
  /\ settings \in [SettingKeys -> BOOLEAN]
  /\ myCurrentSlot = 0
  /\ myRewindManager = RewindManager_clear
  /\ myActiveMode = IF settings[TimeMachineKey(settings)] THEN "TimeMachine" ELSE "Off"
  /\ machine = 0
  /\ files = [s \in FileSlots |-> NoFile]
  /\ smCall = NoCall
  /\ settingsStale = FALSE

\* void StateManager::toggleTimeMachine()
toggleTimeMachine ==
  LET devKey == TimeMachineKey(settings)
      mode   == IF myActiveMode = "TimeMachine" THEN "Off" ELSE "TimeMachine"
  IN /\ myActiveMode' = mode
     /\ settings' = [settings EXCEPT ![devKey] = (mode = "TimeMachine")]
     /\ settingsStale' = FALSE
     /\ UNCHANGED <<myCurrentSlot, myRewindManager, machine, files>>
     /\ smCall' = SmCall("toggleTimeMachine", -1, -1, FALSE, FALSE, 0, <<>>,
                         Message(IF mode = "TimeMachine" THEN "Time Machine enabled"
                                 ELSE "Time Machine disabled", -1, -1))
     /\ UNCHANGED <<bpVars, loopVars, ntVars>>

\* a reset that also goes back to slot 0 (the assignment under #if 0)
reset_SlotZero ==
  /\ myRewindManager' = RewindManager_clear
  /\ myActiveMode' = IF settings[TimeMachineKey(settings)] THEN "TimeMachine" ELSE "Off"
  /\ settingsStale' = FALSE
  /\ myCurrentSlot' = 0
  /\ UNCHANGED <<settings, machine, files>>
  /\ smCall' = SmCall("reset", -1, -1, FALSE, FALSE, 0, <<>>, NoMessage)
  /\ UNCHANGED <<bpVars, loopVars, ntVars>>

\* void StateManager::reset()
reset ==
  /\ myRewindManager' = RewindManager_clear
  /\ myActiveMode' = IF settings[TimeMachineKey(settings)] THEN "TimeMachine" ELSE "Off"
  /\ settingsStale' = FALSE
  /\ UNCHANGED <<myCurrentSlot, settings, machine, files>>
  /\ smCall' = SmCall("reset", -1, -1, FALSE, FALSE, 0, <<>>, NoMessage)
  /\ UNCHANGED <<bpVars, loopVars, ntVars>>

\* an update that adds a snapshot whatever the mode
update_AnyMode ==
  /\ myRewindManager' = RewindManager_addState(myRewindManager, machine, "Time Machine", TRUE)
  /\ UNCHANGED <<myActiveMode, myCurrentSlot, settings, machine, files, settingsStale>>
  /\ smCall' = SmCall("update", -1, -1, FALSE, FALSE, 0, <<<<"Time Machine", TRUE>>>>,
                      NoMessage)
  /\ UNCHANGED <<bpVars, loopVars, ntVars>>

\* void StateManager::update()
update ==
  /\ UNCHANGED <<myActiveMode, myCurrentSlot, settings, machine, files, settingsStale>>
  /\ IF myActiveMode = "TimeMachine"
     THEN /\ myRewindManager' =
               RewindManager_addState(myRewindManager, machine, "Time Machine", TRUE)
          /\ smCall' = SmCall("update", -1, -1, FALSE, FALSE, 0,
                              <<<<"Time Machine", TRUE>>>>, NoMessage)
     ELSE /\ UNCHANGED myRewindManager
          /\ smCall' = SmCall("update", -1, -1, FALSE, FALSE, 0, <<>>, NoMessage)
  /\ UNCHANGED <<bpVars, loopVars, ntVars>>

\* void StateManager::loadState(int slot)
loadState(slotArg) ==
  /\ UNCHANGED <<myActiveMode, myCurrentSlot, myRewindManager, settings, files,
                 settingsStale>>
  /\ IF ~hasConsole
     THEN /\ UNCHANGED machine
          /\ smCall' = SmCall("loadState", slotArg, -1, FALSE, FALSE, 0, <<>>, NoMessage)
     ELSE LET slot == Slot(slotArg, myCurrentSlot)
              file == FileAt(files, slot)
          IN \E opened \in (IF file.exists THEN BOOLEAN ELSE {FALSE}) :
               LET out == IF opened THEN LoadOutcome(file.data, machine)
                          ELSE LoadResult("Can't open/load from state file", machine,
                                          FALSE, 0)
               IN /\ machine' = out.machine
                  /\ smCall' = SmCall("loadState", slotArg, slot, opened,
                                      out.consoleLoad, out.read, <<>>,
                                      Message(out.text, slot, -1))
  /\ UNCHANGED <<bpVars, loopVars, ntVars>>

\* void StateManager::saveState(int slot)
saveState(slotArg) ==
  /\ UNCHANGED <<myActiveMode, myRewindManager, settings, machine, settingsStale>>
  /\ IF ~hasConsole
     THEN /\ UNCHANGED <<myCurrentSlot, files>>
          /\ smCall' = SmCall("saveState", slotArg, -1, FALSE, FALSE, 0, <<>>, NoMessage)
     ELSE LET slot == Slot(slotArg, myCurrentSlot)
          IN \E fault \in (IF slot \in FileSlots THEN SaveFaults ELSE {"open"}) :
               /\ files' = IF fault = "open" THEN files
                           ELSE [files EXCEPT ![slot] = Written(fault, machine)]
               /\ myCurrentSlot' \in
                    IF slot = INT_MAX /\ fault = "none" /\ settings["autoslot"]
                    THEN OverflowedSlots
                    ELSE {SlotAfterSave(fault, settings["autoslot"], slot, myCurrentSlot)}
               /\ smCall' = SmCall("saveState", slotArg, slot, fault # "open", FALSE, 0,
                                   <<>>, SaveMessage(fault, settings["autoslot"], slot))
  /\ UNCHANGED <<bpVars, loopVars, ntVars>>

\* return in.getString() == STATE_HEADER && in.getString() == name && console().load(in);
\* inside try { } catch(...) { } return false; getString on an exhausted stream throws
LoadStream(data, live) ==
  IF Len(data) < 1 THEN [ret |-> FALSE, machine |-> live, consoleLoad |-> FALSE, read |-> 0]
  ELSE IF data[1] # STATE_HEADER
  THEN [ret |-> FALSE, machine |-> live, consoleLoad |-> FALSE, read |-> 1]
  ELSE IF Len(data) < 2
  THEN [ret |-> FALSE, machine |-> live, consoleLoad |-> FALSE, read |-> 1]
  ELSE IF data[2] # CartridgeName
  THEN [ret |-> FALSE, machine |-> live, consoleLoad |-> FALSE, read |-> 2]
  ELSE LET r == Console_load(data, live)
       IN [ret |-> r.ok, machine |-> r.machine, consoleLoad |-> TRUE, read |-> Len(data)]

\* a stream load that goes on to the console load when the name differs
loadState_Serializer_NoNameCheck(slot, valid) ==
  /\ UNCHANGED <<myActiveMode, myCurrentSlot, myRewindManager, settings, files,
                 settingsStale>>
  /\ LET data == FileAt(files, slot).data
         r    == Console_load(data, machine)
         out  == IF hasConsole /\ valid /\ Len(data) >= 2 /\ data[1] = STATE_HEADER
                 THEN [ret |-> r.ok, machine |-> r.machine, consoleLoad |-> TRUE,
                       read |-> Len(data)]
                 ELSE [ret |-> FALSE, machine |-> machine, consoleLoad |-> FALSE,
                       read |-> 0]
     IN /\ machine' = out.machine
        /\ smCall' = [SmCall("loadState(Serializer&)", slot, slot, valid,
                              out.consoleLoad, out.read, <<>>, NoMessage)
                        EXCEPT !.ret = out.ret, !.stream = data]
  /\ UNCHANGED <<bpVars, loopVars, ntVars>>

\* bool StateManager::loadState(Serializer& in), in a stream over the file of a slot;
\* valid is what if(in) finds
loadState_Serializer(slot, valid) ==
  /\ UNCHANGED <<myActiveMode, myCurrentSlot, myRewindManager, settings, files,
                 settingsStale>>
  /\ LET data == FileAt(files, slot).data
         out  == IF hasConsole /\ valid THEN LoadStream(data, machine)
                 ELSE [ret |-> FALSE, machine |-> machine, consoleLoad |-> FALSE,
                       read |-> 0]
     IN /\ machine' = out.machine
        /\ smCall' = [SmCall("loadState(Serializer&)", slot, slot, valid,
                              out.consoleLoad, out.read, <<>>, NoMessage)
                        EXCEPT !.ret = out.ret, !.stream = data]
  /\ UNCHANGED <<bpVars, loopVars, ntVars>>

\* bool StateManager::saveState(Serializer& out), out a stream over the file of a slot;
\* the fault "open" is an invalid stream, the others a putString or a Console::save
\* that fails
saveState_Serializer(slot, fault) ==
  /\ UNCHANGED <<myActiveMode, myCurrentSlot, myRewindManager, settings, machine,
                 settingsStale>>
  /\ LET writes == hasConsole /\ fault # "open"
     IN /\ files' = IF writes THEN [files EXCEPT ![slot] = Written(fault, machine)]
                     ELSE files
        /\ smCall' = [SmCall("saveState(Serializer&)", slot, slot, fault # "open", FALSE,
                              0, <<>>, NoMessage)
                        EXCEPT !.ret = hasConsole /\ fault = "none",
                               !.stream = IF writes THEN Written(fault, machine).data
                                          ELSE <<>>]
  /\ UNCHANGED <<bpVars, loopVars, ntVars>>

\* void StateManager::changeState()
changeState ==
  /\ myCurrentSlot' = Rem(myCurrentSlot + 1, SlotCount)
  /\ UNCHANGED <<myActiveMode, myRewindManager, settings, machine, files, settingsStale>>
  /\ smCall' = SmCall("changeState", -1, -1, FALSE, FALSE, 0, <<>>,
                      Message("Changed to slot", myCurrentSlot', -1))
  /\ UNCHANGED <<bpVars, loopVars, ntVars>>

\* the labels of the snapshots the user asks for
ExtraLabels == {"a", "b"}

\* an extra snapshot that is taken whatever the mode
addExtraState_AnyMode(message) ==
  /\ UNCHANGED <<myActiveMode, myCurrentSlot, settings, machine, files, settingsStale>>
  /\ \E ok \in BOOLEAN :
       /\ myRewindManager' =
            IF ok THEN RewindManager_addState(myRewindManager, machine, message, FALSE)
            ELSE myRewindManager
       /\ smCall' = [SmCall("addExtraState", -1, -1, FALSE, FALSE, 0,
                             <<<<message, FALSE>>>>, NoMessage)
                       EXCEPT !.ret = ok]
  /\ UNCHANGED <<bpVars, loopVars, ntVars>>

\* bool StateManager::addExtraState(const string& message); ok is what
\* RewindManager::addState returns, a failed addState leaves the history as it was
addExtraState(message) ==
  /\ UNCHANGED <<myActiveMode, myCurrentSlot, settings, machine, files, settingsStale>>
  /\ IF myActiveMode = "TimeMachine"
     THEN \E ok \in BOOLEAN :
            /\ myRewindManager' =
                 IF ok THEN RewindManager_addState(myRewindManager, machine, message, FALSE)
                 ELSE myRewindManager
            /\ smCall' = [SmCall("addExtraState", -1, -1, FALSE, FALSE, 0,
                                  <<<<message, FALSE>>>>, NoMessage)
                            EXCEPT !.ret = ok]
     ELSE /\ UNCHANGED myRewindManager
          /\ smCall' = SmCall("addExtraState", -1, -1, FALSE, FALSE, 0, <<>>, NoMessage)
  /\ UNCHANGED <<bpVars, loopVars, ntVars>>

\* the step counts of the rewind and unwind requests
WindCounts == {0, 1, 2}

\* RewindManager::windStates(numStates, unwind): the cursor moves up to numStates
\* entries back (forward when unwind), stopping at the oldest (newest) entry; when it
\* moved, the snapshot it lands on is loaded into the live console; returns whether it
\* moved
RewindManager_windStates(r, live, numStates, unwind) ==
  LET target == IF unwind
                THEN (IF r.cursor + numStates > Len(r.states) THEN Len(r.states)
                      ELSE r.cursor + numStates)
                ELSE (IF r.cursor = 0 THEN 0
                      ELSE IF r.cursor - numStates < 1 THEN 1
                      ELSE r.cursor - numStates)
      moved  == target # r.cursor
  IN [history |-> [r EXCEPT !.cursor = target],
      machine |-> IF moved THEN r.states[target].state ELSE live,
      ret     |-> moved]

\* RewindManager::rewindStates(numStates)
RewindManager_rewindStates(r, live, numStates) ==
  RewindManager_windStates(r, live, numStates, FALSE)

\* RewindManager::unwindStates(numStates)
RewindManager_unwindStates(r, live, numStates) ==
  RewindManager_windStates(r, live, numStates, TRUE)

\* the record of a call forwarded to the RewindManager
Wind(fn, numStates, unwind) == [fn |-> fn, n |-> numStates, unwind |-> unwind]

\* a rewind that reaches the RewindManager only in Time Machine mode
rewindStates_OnlyTimeMachine(numStates) ==
  LET r == RewindManager_rewindStates(myRewindManager, machine, numStates)
      on == myActiveMode = "TimeMachine"
  IN /\ myRewindManager' = IF on THEN r.history ELSE myRewindManager
     /\ machine' = IF on THEN r.machine ELSE machine
     /\ UNCHANGED <<myActiveMode, myCurrentSlot, settings, files, settingsStale>>
     /\ smCall' = [SmCall("rewindStates", numStates, -1, FALSE, FALSE, 0, <<>>, NoMessage)
                     EXCEPT !.ret = on /\ r.ret,
                            !.winds = IF on THEN <<Wind("rewindStates", numStates, FALSE)>>
                                      ELSE <<>>]
     /\ UNCHANGED <<bpVars, loopVars, ntVars>>

\* bool StateManager::rewindStates(uInt32 numStates)
rewindStates(numStates) ==
  LET r == RewindManager_rewindStates(myRewindManager, machine, numStates)
  IN /\ myRewindManager' = r.history
     /\ machine' = r.machine
     /\ UNCHANGED <<myActiveMode, myCurrentSlot, settings, files, settingsStale>>
     /\ smCall' = [SmCall("rewindStates", numStates, -1, FALSE, FALSE, 0, <<>>, NoMessage)
                     EXCEPT !.ret = r.ret,
                            !.winds = <<Wind("rewindStates", numStates, FALSE)>>]
     /\ UNCHANGED <<bpVars, loopVars, ntVars>>

\* bool StateManager::unwindStates(uInt32 numStates)
unwindStates(numStates) ==
  LET r == RewindManager_unwindStates(myRewindManager, machine, numStates)
  IN /\ myRewindManager' = r.history
     /\ machine' = r.machine
     /\ UNCHANGED <<myActiveMode, myCurrentSlot, settings, files, settingsStale>>
     /\ smCall' = [SmCall("unwindStates", numStates, -1, FALSE, FALSE, 0, <<>>, NoMessage)
                     EXCEPT !.ret = r.ret,
                            !.winds = <<Wind("unwindStates", numStates, TRUE)>>]
     /\ UNCHANGED <<bpVars, loopVars, ntVars>>

\* bool StateManager::windStates(uInt32 numStates, bool unwind)
windStates(numStates, unwind) ==
  LET r == RewindManager_windStates(myRewindManager, machine, numStates, unwind)
  IN /\ myRewindManager' = r.history
     /\ machine' = r.machine
     /\ UNCHANGED <<myActiveMode, myCurrentSlot, settings, files, settingsStale>>
     /\ smCall' = [SmCall("windStates", numStates, -1, FALSE, FALSE, 0, <<>>, NoMessage)
                     EXCEPT !.ret = r.ret,
                            !.flag = unwind,
                            !.winds = <<Wind("windStates", numStates, unwind)>>]
     /\ UNCHANGED <<bpVars, loopVars, ntVars>>

\* the emulation moves the live console to another state
MachineStep ==
  /\ machine' = (machine + 1) % (MaxMachine + 1)
  /\ smCall' = NoCall
  /\ UNCHANGED <<myActiveMode, myCurrentSlot, myRewindManager, settings, files,
                 settingsStale>>
  /\ UNCHANGED <<bpVars, loopVars, ntVars>>

\* the user or another program puts a file in the state directory, or removes one
PlantFile ==
  /\ \E slot \in TrackedSlots, f \in ForeignFiles : files' = [files EXCEPT ![slot] = f]
  /\ smCall' = NoCall
  /\ UNCHANGED <<myActiveMode, myCurrentSlot, myRewindManager, settings, machine,
                 settingsStale>>
  /\ UNCHANGED <<bpVars, loopVars, ntVars>>

\* an event creates or deletes the console, or moves the event handler between the
\* launcher and the emulation
ConsoleEvent ==
  /\ \E s \in {"LAUNCHER", "EMULATION"}, c \in BOOLEAN :
       /\ ehState' = s
       /\ myConsole' = c
  /\ smCall' = NoCall
  /\ UNCHANGED <<myActiveMode, myCurrentSlot, myRewindManager, settings, machine, files,
                 settingsStale>>
  /\ UNCHANGED <<bpVars, ntVars>>
  /\ UNCHANGED <<cheatSupport, cheatFlushes, fatalPending, fry, iterSteps>>
  /\ UNCHANGED <<pc, wasEmulation, myQuitLoop, debuggerSupport, wall, virtualTime, now,
                 timeslice, framePending, frameCopied, dispatchResult, nextResultId,
                 totalCycles, workerStarted, workerResult, workerCycles, workerFault,
                 startLog, iterCalls, drReads, resyncDrop>>

\* the developer settings are switched on or off in the settings dialog
SetDevSettings ==
  /\ settings' = [settings EXCEPT !["dev.settings"] = ~settings["dev.settings"]]
  /\ settingsStale' = TRUE
  /\ smCall' = NoCall
  /\ UNCHANGED <<myActiveMode, myCurrentSlot, myRewindManager, machine, files>>
  /\ UNCHANGED <<bpVars, loopVars, ntVars>>

\* the mode: toggles, resets and per-tick updates
SmModeNext ==
  \/ toggleTimeMachine
  \/ reset
  \/ update
  \/ changeState
  \/ MachineStep
  \/ SetDevSettings

\* the slots: loads, saves and slot changes
SmSlotsNext ==
  \/ \E slotArg \in SlotArgs : loadState(slotArg)
  \/ \E slotArg \in SlotArgs : saveState(slotArg)
  \/ changeState
  \/ MachineStep
  \/ PlantFile

\* the rewind history: snapshots, rewinds and unwinds in either mode
SmRewindNext ==
  \/ update
  \/ toggleTimeMachine
  \/ MachineStep
  \/ \E message \in ExtraLabels : addExtraState(message)
  \/ \E numStates \in WindCounts : rewindStates(numStates)
  \/ \E numStates \in WindCounts : unwindStates(numStates)
  \/ \E numStates \in WindCounts, unwind \in BOOLEAN : windStates(numStates, unwind)

\* loads and saves through a stream the caller holds, next to loads from a slot
SmStreamNext ==
  \/ \E slot \in TrackedSlots, valid \in BOOLEAN : loadState_Serializer(slot, valid)
  \/ \E slot \in TrackedSlots, fault \in SaveFaults : saveState_Serializer(slot, fault)
  \/ \E slotArg \in SlotArgs : loadState(slotArg)
  \/ MachineStep
  \/ PlantFile

\* loads and saves of both forms while the console comes and goes
SmConsoleNext ==
  \/ \E slotArg \in SlotArgs : loadState(slotArg)
  \/ \E slotArg \in SlotArgs : saveState(slotArg)
  \/ \E slot \in TrackedSlots, valid \in BOOLEAN : loadState_Serializer(slot, valid)
  \/ \E slot \in TrackedSlots, fault \in SaveFaults : saveState_Serializer(slot, fault)
  \/ ConsoleEvent
  \/ MachineStep

\* the operations that can move the current slot or leave it, with slot arguments up to
\* the largest int
SmRangeNext ==
  \/ \E slotArg \in WideSlotArgs : saveState(slotArg)
  \/ \E slotArg \in WideSlotArgs : loadState(slotArg)
  \/ changeState
  \/ toggleTimeMachine
  \/ update
  \/ reset

SmNext ==
  SmModeNext \/ SmSlotsNext \/ SmRewindNext \/ SmStreamNext \/ SmConsoleNext \/ SmRangeNext

\* a StateManager that is constructed and then left alone
SmIdle == SmInit /\ settings = [k \in SettingKeys |-> FALSE]

(***************************************************************************)
(* NTSCFilter                                                              *)
(***************************************************************************)

\* number of increaseAdjustable / decreaseAdjustable steps the model follows
MaxAdjust == 1

\* const AdjustableTag ourCustomAdjustables[10]: the name shown and the field pointed to
AdjustableCount == 10
ourCustomAdjustables ==
  << [type |-> "contrast",   value |-> "contrast"],
     [type |-> "brightness", value |-> "brightness"],
     [type |-> "hue",        value |-> "hue"],
     [type |-> "saturation", value |-> "saturation"],
     [type |-> "gamma",      value |-> "gamma"],
     [type |-> "sharpness",  value |-> "sharpness"],
     [type |-> "resolution", value |-> "resolution"],
     [type |-> "artifacts",  value |-> "artifacts"],
     [type |-> "fringing",   value |-> "fringing"],
     [type |-> "bleeding",   value |-> "bleed"] >>

\* the fields of AtariNTSC::Setup that the filter loads, saves and adjusts
SetupFields == {ourCustomAdjustables[i].value : i \in 1..AdjustableCount}

\* SCALE_TO_100(x): uInt32(50 * (x + 1.0)), with x in hundredths
SCALE_TO_100(x) == (50 * (x + 100)) \div 100

\* SCALE_FROM_100(x): (x / 50.0) - 1.0, in hundredths
SCALE_FROM_100(x) == 2 * x - 100

\* BSPF::clamp(value, -1.0f, 1.0f), in hundredths
ClampSetting(v) == IF v < -100 THEN -100 ELSE IF v > 100 THEN 100 ELSE v

\* the tv.* settings the model loads, in hundredths, and the presets it selects
SettingInputs == {-150, 1, 100}
PresetInputs == {"PRESET_OFF", "PRESET_SVIDEO", "PRESET_CUSTOM"}

\* the calls that select or change an adjustable
Selectors == {"setNextAdjustable", "setPreviousAdjustable"}
Adjusters == {"increaseAdjustable", "decreaseAdjustable"}

\* the table setPreset copies into mySetup
SetupFor(preset, custom, current) ==
  CASE preset = "PRESET_COMPOSITE" -> <<"TV_Composite">>
    [] preset = "PRESET_SVIDEO"    -> <<"TV_SVideo">>
    [] preset = "PRESET_RGB"       -> <<"TV_RGB">>
    [] preset = "PRESET_BAD"       -> <<"TV_Bad">>
    [] preset = "PRESET_CUSTOM"    -> <<"myCustomSetup", custom>>
    [] OTHER                       -> current

\* history of a call: what the filter was before it, the selection with 'Custom'
\* selected that came just before it, and the run of equal selections that it ends
NtCall(op, ret) ==
  LET selected == ntCall.op \in Selectors /\ ntCall.preset = "PRESET_CUSTOM"
      more == /\ op \in Selectors
              /\ myPreset = "PRESET_CUSTOM"
              /\ selected
              /\ ntCall.op = op
              /\ ntCall.run < AdjustableCount
  IN  [op |-> op, ret |-> ret,
       preset |-> myPreset, index |-> myCurrentAdjustable, custom |-> myCustomSetup,
       prevOp |-> IF selected THEN ntCall.op ELSE "other",
       prevIndex |-> IF selected THEN ntCall.index ELSE myCurrentAdjustable,
       run |-> IF more THEN ntCall.run + 1
               ELSE IF op \in Selectors /\ myPreset = "PRESET_CUSTOM" THEN 1 ELSE 0,
       runStart |-> IF more THEN ntCall.runStart ELSE myCurrentAdjustable]

NotSelected == <<"'Custom' TV mode not selected">>

\* string NTSCFilter::setPreset(Preset preset)
setPreset(preset) ==
  /\ myPreset' = preset
  /\ mySetup' = SetupFor(preset, myCustomSetup, mySetup)
  /\ ntCall' = NtCall("setPreset", <<preset>>)
  /\ UNCHANGED <<myCurrentAdjustable, myCustomSetup, ntAdjusts>>
  /\ UNCHANGED <<bpVars, loopVars, smVars>>

\* string NTSCFilter::setNextAdjustable()
setNextAdjustable ==
  /\ IF myPreset # "PRESET_CUSTOM"
     THEN /\ ntCall' = NtCall("setNextAdjustable", NotSelected)
          /\ UNCHANGED myCurrentAdjustable
     ELSE /\ myCurrentAdjustable' = (myCurrentAdjustable + 1) % 10
          /\ ntCall' = NtCall("setNextAdjustable",
               <<"selected", ourCustomAdjustables[myCurrentAdjustable' + 1].type>>)
  /\ UNCHANGED <<myPreset, myCustomSetup, mySetup, ntAdjusts>>
  /\ UNCHANGED <<bpVars, loopVars, smVars>>

\* setPreviousAdjustable without the test of the preset
setPreviousAdjustable_AnyPreset ==
  /\ myCurrentAdjustable' = IF myCurrentAdjustable = 0 THEN 9 ELSE myCurrentAdjustable - 1
  /\ ntCall' = NtCall("setPreviousAdjustable",
       <<"selected", ourCustomAdjustables[myCurrentAdjustable' + 1].type>>)
  /\ UNCHANGED <<myPreset, myCustomSetup, mySetup, ntAdjusts>>
  /\ UNCHANGED <<bpVars, loopVars, smVars>>

\* string NTSCFilter::setPreviousAdjustable()
setPreviousAdjustable ==
  /\ IF myPreset # "PRESET_CUSTOM"
     THEN /\ ntCall' = NtCall("setPreviousAdjustable", NotSelected)
          /\ UNCHANGED myCurrentAdjustable
     ELSE /\ myCurrentAdjustable' =
               IF myCurrentAdjustable = 0 THEN 9 ELSE myCurrentAdjustable - 1
          /\ ntCall' = NtCall("setPreviousAdjustable",
               <<"selected", ourCustomAdjustables[myCurrentAdjustable' + 1].type>>)
  /\ UNCHANGED <<myPreset, myCustomSetup, mySetup, ntAdjusts>>
  /\ UNCHANGED <<bpVars, loopVars, smVars>>

\* the body of increaseAdjustable / decreaseAdjustable once 'Custom' is selected: the
\* adjustable is set to newval and setPreset(myPreset) copies the custom setup
Adjust(op, newval) ==
  LET tag == ourCustomAdjustables[myCurrentAdjustable + 1]
  IN  /\ myCustomSetup' = [myCustomSetup EXCEPT ![tag.value] = SCALE_FROM_100(newval)]
      /\ mySetup' = SetupFor(myPreset, myCustomSetup', mySetup)
      /\ ntCall' = NtCall(op, <<"set", tag.type, newval>>)
      /\ ntAdjusts' = ntAdjusts + 1
      /\ UNCHANGED <<myPreset, myCurrentAdjustable>>

\* string NTSCFilter::increaseAdjustable()
increaseAdjustable ==
  /\ IF myPreset # "PRESET_CUSTOM"
     THEN /\ ntCall' = NtCall("increaseAdjustable", NotSelected)
          /\ UNCHANGED <<myPreset, myCurrentAdjustable, myCustomSetup, mySetup, ntAdjusts>>
     ELSE /\ ntAdjusts < MaxAdjust
          /\ LET tag == ourCustomAdjustables[myCurrentAdjustable + 1]
                 newval == SCALE_TO_100(myCustomSetup[tag.value]) + 2
             IN  Adjust("increaseAdjustable", IF newval > 100 THEN 100 ELSE newval)
  /\ UNCHANGED <<bpVars, loopVars, smVars>>

\* string NTSCFilter::decreaseAdjustable()
decreaseAdjustable ==
  /\ IF myPreset # "PRESET_CUSTOM"
     THEN /\ ntCall' = NtCall("decreaseAdjustable", NotSelected)
          /\ UNCHANGED <<myPreset, myCurrentAdjustable, myCustomSetup, mySetup, ntAdjusts>>
     ELSE /\ ntAdjusts < MaxAdjust
          /\ LET tag == ourCustomAdjustables[myCurrentAdjustable + 1]
                 newval == SCALE_TO_100(myCustomSetup[tag.value])
             IN  Adjust("decreaseAdjustable", IF newval < 2 THEN 0 ELSE newval - 2)
  /\ UNCHANGED <<bpVars, loopVars, smVars>>

\* NTSCFilter::NTSCFilter(), then NTSCFilter::loadConfig(settings) with every tv.*
\* setting being v
NtLoaded(v) ==
  /\ mySetup = <<"TV_Composite">>
  /\ myPreset = "PRESET_OFF"
  /\ myCurrentAdjustable = 0
  /\ myCustomSetup = [f \in SetupFields |-> ClampSetting(v)]
  /\ ntCall = [op |-> "NTSCFilter", ret |-> <<>>, preset |-> "PRESET_OFF", index |-> 0,
               custom |-> myCustomSetup, prevOp |-> "other", prevIndex |-> 0,
               run |-> 0, runStart |-> 0]
  /\ ntAdjusts = 0

\* a filter that is constructed and never used
NtIdle == NtLoaded(0)

NtInit == \E v \in SettingInputs : NtLoaded(v)

NtNext ==
  \/ \E preset \in PresetInputs : setPreset(preset)
  \/ setNextAdjustable
  \/ setPreviousAdjustable
  \/ increaseAdjustable
  \/ decreaseAdjustable

(***************************************************************************)
(* Specifications                                                          *)
(***************************************************************************)

Init == BpInit /\ LoopInit /\ SmInit /\ NtInit
Next == BpNext \/ LoopNext \/ SmNext \/ NtNext
Spec == Init /\ [][Next]_vars

\* the BreakpointMap alone, under any sequence of its operations
InitBP ==
  /\ BpInit /\ NtIdle /\ LoopInit /\ SmIdle
  /\ debuggerSupport /\ cheatSupport /\ ehState = "LAUNCHER"
SpecBP == InitBP /\ [][BpNext]_vars

\* the breakpoint the debugger commands of the model set and remove
DebugAddr == 4096

\* a command typed in the debugger sets, removes or clears breakpoints; the debugger
\* runs its commands on the foreground thread, from the event handler's poll, while the
\* event handler is in the debugger state
DebuggerCommand ==
  /\ pc = "poll"
  /\ ehState = "DEBUGGER"
  /\ \/ add(DebugAddr, 0, 0)
     \/ erase(DebugAddr, 0)
     \/ clear

\* the main loop with a debugger that changes the breakpoints
DebugNext == LoopNext \/ DebuggerCommand

\* the end of dispatchEmulation, from emulationWorker.stop() on
DispatchNext == DispatchHandle \/ DispatchFry \/ DispatchReturn

\* dispatchEmulation of the first main loop iteration right after emulationWorker.stop()
\* returned, for every status a DispatchResult can hold and every number of bursts
DispatchInit ==
  /\ pc = "d_handle"
  /\ debuggerSupport \in BOOLEAN
  /\ ehState = "EMULATION"
  /\ myConsole = TRUE
  /\ wasEmulation = TRUE
  /\ myQuitLoop = FALSE
  /\ wall = 0
  /\ virtualTime = 0
  /\ now = 0
  /\ timeslice = <<0, 1>>
  /\ framePending = FALSE
  /\ frameCopied = FALSE
  /\ dispatchResult \in [id : {1}, status : StatusValues]
  /\ nextResultId = 1
  /\ totalCycles \in {k * BurstCycles : k \in 1..MaxBursts}
  /\ workerStarted = FALSE
  /\ workerResult = 1
  /\ workerCycles = totalCycles
  /\ workerFault = "none"
  /\ startLog = <<1>>
  /\ iterCalls = <<"start", "stop">>
  /\ drReads = {}
  /\ resyncDrop = 0
  /\ cheatSupport \in BOOLEAN
  /\ cheatFlushes = <<>>
  /\ fatalPending = FALSE
  /\ fry = NoFry
  /\ iterSteps = <<"dispatch">>

\* the handling of a dispatch result, whatever the worker handed back
InitDispatch == BpInit /\ NtIdle /\ DispatchInit /\ SmIdle
SpecDispatch == InitDispatch /\ [][DispatchNext]_vars

\* the main loop of a build with the debugger, started in the emulation
InitDebug ==
  /\ BpInit /\ NtIdle /\ LoopInit /\ SmIdle
  /\ debuggerSupport /\ ~cheatSupport /\ ehState = "EMULATION"
SpecDebug == InitDebug /\ [][DebugNext]_vars

\* the NTSC filter alone, under any sequence of its calls
InitNTSC ==
  /\ BpInit /\ NtInit /\ LoopInit /\ SmIdle
  /\ debuggerSupport /\ cheatSupport /\ ehState = "LAUNCHER"
SpecNTSC == InitNTSC /\ [][NtNext]_vars

\* the main loop and the emulation worker
InitLoop == BpInit /\ NtIdle /\ LoopInit /\ SmIdle
SpecLoop == InitLoop /\ [][LoopNext]_vars

\* the StateManager's mode, with or without a console
InitMode ==
  /\ BpInit /\ NtIdle /\ LoopInit /\ SmInit
  /\ debuggerSupport /\ cheatSupport /\ ~settings["autoslot"]
SpecMode == InitMode /\ [][SmModeNext]_vars

\* the StateManager as construction leaves it when the Time Machine is off, and as
\* construction and one update leave it when the Time Machine is on
SmAfterMode ==
  /\ settings \in [SettingKeys -> BOOLEAN]
  /\ myCurrentSlot = 0
  /\ myActiveMode = IF settings[TimeMachineKey(settings)] THEN "TimeMachine" ELSE "Off"
  /\ myRewindManager =
       IF myActiveMode = "TimeMachine"
       THEN RewindManager_addState(RewindManager_clear, 0, "Time Machine", TRUE)
       ELSE RewindManager_clear
  /\ machine = 0
  /\ files = [s \in FileSlots |-> NoFile]
  /\ smCall = NoCall
  /\ settingsStale = FALSE

\* the StateManager's rewind history
InitRewind ==
  /\ BpInit /\ NtIdle /\ LoopInit /\ SmInit /\ debuggerSupport /\ cheatSupport
  /\ ~settings["dev.settings"] /\ ~settings["dev.timemachine"] /\ ~settings["autoslot"]
SpecRewind == InitRewind /\ [][SmRewindNext]_vars

\* the StateManager's slots, with or without a console
InitSlots ==
  /\ BpInit /\ NtIdle /\ LoopInit /\ SmAfterMode /\ debuggerSupport /\ cheatSupport
  /\ ~settings["dev.settings"] /\ ~settings["dev.timemachine"]
SpecSlots == InitSlots /\ [][SmSlotsNext]_vars

\* the StateManager's stream overloads, with or without a console
InitStream == InitSlots /\ ~settings["autoslot"] /\ ~settings["plr.timemachine"]
SpecStream == InitStream /\ [][SmStreamNext]_vars

\* the StateManager's current slot under every operation, with a console
InitRange ==
  /\ BpInit /\ NtIdle /\ LoopInit /\ SmInit /\ debuggerSupport /\ cheatSupport
  /\ ehState = "EMULATION"
  /\ ~settings["dev.settings"] /\ ~settings["dev.timemachine"]
SpecRange == InitRange /\ [][SmRangeNext]_vars

\* the StateManager's loads and saves with the console coming and going
InitConsole == InitSlots /\ ~settings["plr.timemachine"]
SpecConsole == InitConsole /\ [][SmConsoleNext]_vars

(***************************************************************************)
(* BreakpointMap: properties                                               *)
(***************************************************************************)

\* C1: after add(address, bank, f), check(address, bank) is true and get(address, bank)
\* is exactly f; after erase(address, bank), check(address, bank) is false; from any
\* reachable map state.
C1_AddThenCheckGet_EraseThenCheck ==
  /\ bpCall.op = "add" =>
       check(myMap, bpCall.bp) /\ get(myMap, bpCall.bp) = bpCall.flags
  /\ bpCall.op = "erase" => ~check(myMap, bpCall.bp)

\* an erase of a key that an earlier add had stored, with another key left in the map
C1_Witness ==
  bpCall.op = "erase" /\ bpCall.had /\ ~check(myMap, bpCall.bp) /\ bpCall.oldFlags = ONE_SHOT

\* C2: addresses equal in their low 13 bits, with equal banks, are one key for every
\* operation (add on one makes check/get on the other succeed, erase on one removes the
\* other, operator== and the hash agree on them); equal masked addresses with different
\* banks are distinct keys.
C2_MirrorsAreOneKey ==
  /\ \A bp1, bp2 \in Breakpoints :
       /\ Key(bp1) = Key(bp2) =>
            BpEq(bp1, bp2) /\ BreakpointHash(bp1) = BreakpointHash(bp2)
       /\ bp1.bank # bp2.bank => ~BpEq(bp1, bp2)
  /\ \A bp \in Breakpoints : check(myMap, bp) <=> Key(bp) \in liveKeys
  /\ bpCall.op = "add" =>
       \A bp \in Breakpoints : Key(bp) = Key(bpCall.bp) =>
         check(myMap, bp) /\ get(myMap, bp) = bpCall.flags
  /\ bpCall.op = "erase" =>
       \A bp \in Breakpoints : Key(bp) = Key(bpCall.bp) => ~check(myMap, bp)

\* 0x3000 was erased in bank 0 while the entry was stored under 0x1000, and the entry
\* of the same address in another bank is still there
C2_Witness ==
  /\ bpCall.op = "erase" /\ bpCall.had /\ bpCall.bp = Breakpoint(12288, 0)
  /\ ~check(myMap, Breakpoint(4096, 0))
  /\ \E n \in myMap : n.first.addr % 8192 = 4096 /\ n.first.bank # 0

\* C3: at most one entry per (address & 0x1fff, bank); add on a present key replaces
\* the flags and leaves size() unchanged; size() is the number of distinct keys added
\* and not since erased or cleared.
C3_OneEntryPerKey ==
  /\ \A n1, n2 \in myMap : Key(n1.first) = Key(n2.first) => n1 = n2
  /\ (bpCall.op = "add" /\ bpCall.had) =>
       size(myMap) = bpCall.oldSize /\ get(myMap, bpCall.bp) = bpCall.flags
  /\ size(myMap) = Cardinality(liveKeys)

\* an add of a mirror of a stored address that changed the flags of the entry
C3_Witness ==
  /\ bpCall.op = "add" /\ bpCall.had /\ bpCall.oldFlags # bpCall.flags
  /\ \E n \in myMap : BpEq(n.first, bpCall.bp) /\ n.first.addr # bpCall.bp.addr
  /\ size(myMap) = 2

\* C4: get returns 0 for an absent key, as it does for a key stored with flags 0;
\* check tells them apart.
C4_GetZeroWhenAbsent ==
  /\ \A bp \in Breakpoints : ~check(myMap, bp) => get(myMap, bp) = 0
  /\ (bpCall.op = "add" /\ bpCall.flags = 0) =>
       get(myMap, bpCall.bp) = 0 /\ check(myMap, bpCall.bp)
  /\ (bpCall.op = "get" /\ Key(bpCall.bp) \notin liveKeys) => bpRet.flags = 0
  /\ bpCall.op = "check" => (bpRet.found <=> Key(bpCall.bp) \in liveKeys)

\* get of an absent key returned 0 while another key is stored with non-zero flags and
\* a third with flags 0
C4_Witness ==
  /\ bpCall.op = "get" /\ ~bpCall.had /\ bpRet.flags = 0
  /\ \E n \in myMap : n.second # 0
  /\ \E n \in myMap : n.second = 0 /\ get(myMap, n.first) = 0 /\ check(myMap, n.first)

\* C5: after clear() size() is 0, check is false and get is 0 for every key and
\* getBreakpoints() is empty; getBreakpoints() returns one element per stored key.
C5_ClearAndList ==
  /\ bpCall.op = "clear" =>
       /\ size(myMap) = 0
       /\ \A bp \in Breakpoints : ~check(myMap, bp) /\ get(myMap, bp) = 0
       /\ Orders(myMap) = {<<>>}
  /\ bpCall.op = "getBreakpoints" =>
       /\ Len(bpRet.list) = size(myMap)
       /\ \A i \in 1..Len(bpRet.list) : check(myMap, bpRet.list[i])
       /\ \A i, j \in 1..Len(bpRet.list) :
            i # j => ~BpEq(bpRet.list[i], bpRet.list[j])
       /\ \A bp \in Breakpoints : check(myMap, bp) =>
            \E i \in 1..Len(bpRet.list) : BpEq(bpRet.list[i], bp)

\* clear() of a map that held two entries
C5_Witness == bpCall.op = "clear" /\ bpCall.oldSize = 2 /\ myMap = {}

\* C6: erase(k) changes nothing when k is absent and removes only k when it is
\* present; get, check and getBreakpoints never modify the map.
C6_EraseFrame ==
  [][ /\ bpCall'.op = "erase" =>
          /\ ~check(myMap, bpCall'.bp) => myMap' = myMap
          /\ \A bp \in Breakpoints : Key(bp) # Key(bpCall'.bp) =>
               /\ check(myMap', bp) = check(myMap, bp)
               /\ get(myMap', bp) = get(myMap, bp)
          /\ myInitialized' = myInitialized
      /\ bpCall'.op \in {"get", "check", "getBreakpoints"} =>
          myMap' = myMap /\ myInitialized' = myInitialized
    ]_vars

\* erase removed one of two stored keys and the other is still stored
C6_Witness ==
  /\ bpCall.op = "erase" /\ bpCall.had /\ bpCall.oldSize = 2 /\ size(myMap) = 1
  /\ \A n \in myMap : Key(n.first) # Key(bpCall.bp)


(***************************************************************************)
(* Main loop: properties                                                   *)
(***************************************************************************)
DispatchPcs == {"d_entry"} \cup {DispatchSteps[i] : i \in 1..Len(DispatchSteps)}

\* C7: the controller's calls of EmulationWorker.start and stop strictly alternate,
\* beginning with start: a dispatch that starts the worker stops it before it returns,
\* start never meets a started worker, stop never meets a worker that is not started,
\* and without a console neither is called.
C7_StartStopAlternate ==
  /\ workerFault = "none"
  /\ iterCalls \in {<<>>, <<"start">>, <<"start", "stop">>}
  /\ workerStarted <=> (iterCalls = <<"start">>)
  /\ pc \notin DispatchPcs => ~workerStarted
  /\ pc \in {"d_handle", "d_fry", "d_return"} => iterCalls = <<"start", "stop">>
  /\ (pc \in {"advance", "reconcile"} /\ ~myConsole) => iterCalls = <<>>

\* the second dispatch of a run has started and stopped the worker and has returned
C7_Witness ==
  /\ pc = "advance" /\ iterCalls = <<"start", "stop">> /\ Len(startLog) = 2
  /\ ~workerStarted

\* C8: between start() and the matching stop() the foreground thread does not touch
\* the TIA: a pending frame is copied to the frame buffer before start(), and inside
\* the window the foreground thread only presents the frame buffer.
C8_NoTIAAccessWhileWorkerRuns ==
  /\ workerStarted => (pc \notin TIASteps /\ pc \in {"d_present", "d_stop"})
  /\ (workerStarted /\ framePending) => frameCopied

\* the worker has executed cycles while the foreground thread is about to present the
\* frame it copied before start()
C8_Witness ==
  /\ workerStarted /\ workerCycles > 0 /\ pc = "d_present"
  /\ framePending /\ frameCopied

\* C9: each dispatch has its own DispatchResult, handed to exactly one start(); the
\* controller reads it only after stop() has returned, the trap fields only when the
\* status is debugger and the message only when the status is debugger or fatal.
C9_OwnResultReadAfterStop ==
  /\ \A i, j \in 1..Len(startLog) : i # j => startLog[i] # startLog[j]
  /\ dispatchResult.id # 0 => dispatchResult.id = nextResultId
  /\ workerStarted => workerResult = dispatchResult.id
  /\ \A r \in drReads :
       /\ ~r.running
       /\ \E i \in 1..Len(startLog) : startLog[i] = r.id
       /\ r.field \in {"address", "wasReadTrap", "toolTip"} => r.status = "debugger"
       /\ r.field = "message" => r.status \in {"debugger", "fatal"}

\* the controller has read the trap fields of the result of the second dispatch
C9_Witness ==
  /\ pc = "d_fry" /\ dispatchResult.id = 2 /\ dispatchResult.status = "debugger"
  /\ \E r \in drReads : r.field = "toolTip" /\ r.id = 2

\* C10: the reconciliation of an iteration sets virtual time to now when now exceeds
\* it by more than one frame duration (cyclesPerFrame / cyclesPerSecond, 0 without a
\* console), so that at the end of every iteration the lag is at most one frame
\* duration, whatever the length of the stall.
C10_ResyncBoundsLag ==
  [][ (pc = "reconcile" /\ pc' # "reconcile") =>
        /\ ((now - virtualTime) * MaxLag(myConsole)[2]
               > MaxLag(myConsole)[1] * TicksPerSecond) => virtualTime' = now
        /\ (now' - virtualTime') * MaxLag(myConsole')[2]
               <= MaxLag(myConsole')[1] * TicksPerSecond
    ]_vars

\* a stall of more than two frame durations was dropped: virtual time is now
C10_Witness ==
  /\ pc = "top" /\ myConsole /\ virtualTime = now
  /\ resyncDrop * CyclesPerSecond > 2 * CyclesPerFrame * TicksPerSecond

\* C11: throttle rule.  When virtual time, once advanced, is ahead of the wall-clock
\* reading `now`, the iteration blocks and ends only when wall time has reached virtual
\* time, so no iteration begins with virtual time ahead of wall time; the wait leaves
\* virtual time alone, and an iteration that waits has not resynchronised.
C11_ThrottleRule ==
  /\ [](pc = "top" => wall >= virtualTime)
  /\ [][/\ (pc = "reconcile" /\ virtualTime > now)
            => (pc' = "sleep" /\ virtualTime' = virtualTime /\ resyncDrop' = 0)
        /\ (pc = "reconcile" /\ pc' = "sleep")
            => (virtualTime' = virtualTime /\ resyncDrop' = 0)
        /\ (pc = "reconcile" /\ virtualTime' # virtualTime) => pc' = "top"
        /\ pc = "sleep"
            => (virtualTime' = virtualTime /\ (pc' # "sleep" => wall' >= virtualTime'))]_vars

\* the loop is blocked ahead of the clock reading and the wall clock has caught up
C11_Witness == pc = "sleep" /\ virtualTime > now /\ wall >= virtualTime /\ wall > now

\* C12: the virtual time one iteration adds is set by the mode.  After a dispatch it is
\* the cycle count EmulationWorker::stop returned over cyclesPerSecond, in emulation
\* without a console it is 0, in playback it is scanlinesLastFrame * 76 over
\* cyclesPerSecond, in every other mode it is 1/60 second; virtual time advances by
\* that duration in clock ticks.
C12_TimesliceByMode ==
  /\ [](pc = "advance" =>
          IF iterCalls = <<"start", "stop">>
          THEN timeslice[1] * CyclesPerSecond = workerCycles * timeslice[2]
          ELSE IF ehState = "EMULATION"
          THEN ~myConsole /\ timeslice[1] = 0 /\ iterCalls = <<>>
          ELSE IF ehState = "PLAYBACK"
          THEN \E scanlinesLastFrame \in 0..ScanlinesPerFrame :
                 timeslice[1] * CyclesPerSecond = scanlinesLastFrame * 76 * timeslice[2]
          ELSE timeslice[1] * 60 = timeslice[2])
  /\ [][(pc = "advance" /\ pc' # "advance") =>
          virtualTime' = virtualTime + (timeslice[1] * TicksPerSecond) \div timeslice[2]]_vars

\* an iteration whose worker stopped after part of a frame is about to advance virtual time
C12_Witness ==
  /\ pc = "advance"
  /\ iterCalls = <<"start", "stop">>
  /\ workerCycles > 0
  /\ workerCycles < CyclesPerFrame
  /\ timeslice = <<workerCycles, CyclesPerSecond>>

\* C13: the loop ends exactly when a poll observes the quit flag.  The iteration of
\* that poll goes straight to the cleanup: no dispatch, no worker call, no rendering
\* and no change of virtual time; the cleanup saves the cheats once (the cheats of the
\* console when there is one, then the cheat database) in a build with cheat support;
\* the loop is left in no other way, and the worker is not running at the exit.
C13_QuitEndsLoop ==
  /\ [](/\ myQuitLoop <=> pc \in {"cleanup", "done"}
        /\ pc # "failed"
        /\ pc \in {"cleanup", "done"}
             => (~workerStarted /\ iterCalls = <<>> /\ ~framePending /\ ~frameCopied)
        /\ pc # "done" => cheatFlushes = <<>>
        /\ pc = "done" =>
             cheatFlushes = IF ~cheatSupport THEN <<>>
                            ELSE IF myConsole THEN <<"saveCheats", "saveCheatDatabase">>
                            ELSE <<"saveCheatDatabase">>)
  /\ [][/\ (pc = "poll" /\ myQuitLoop')
            => (pc' = "cleanup" /\ virtualTime' = virtualTime /\ startLog' = startLog)
        /\ pc \in {"cleanup", "done"}
            => (/\ pc' \in {"cleanup", "done"}
                /\ virtualTime' = virtualTime
                /\ startLog' = startLog
                /\ workerStarted' = workerStarted)]_vars

\* the loop has ended after at least one dispatch and the cheats of the console are saved
C13_Witness ==
  /\ pc = "done"
  /\ myQuitLoop
  /\ nextResultId >= 1
  /\ cheatFlushes = <<"saveCheats", "saveCheatDatabase">>

\* C14: after a fatal result has been handled, the worker is not started again until
\* an event changes the state, the console or ends the loop, whether the build has the
\* debugger or not.
C14_FatalHaltsDispatch == fatalPending => ~workerStarted

\* the same with the debugger built in, where the fatal result enters the debugger
C14_FatalHaltsDispatch_Debugger == (debuggerSupport /\ fatalPending) => ~workerStarted

\* C15: the mode is Off or TimeMachine; toggleTimeMachine flips it and writes only the
\* setting "dev.settings" selects; and unless "dev.settings" changed since the last
\* construction, toggle or reset, the mode is TimeMachine exactly when the selected
\* setting ("dev.timemachine" with developer settings, else "plr.timemachine") is true.
C15_ModeFollowsSetting ==
  /\ [](/\ myActiveMode \in {"Off", "TimeMachine"}
        /\ ~settingsStale =>
             (myActiveMode = "TimeMachine" <=>
                IF settings["dev.settings"] THEN settings["dev.timemachine"]
                ELSE settings["plr.timemachine"]))
  /\ [][smCall'.op = "toggleTimeMachine" =>
          /\ myActiveMode' # myActiveMode
          /\ IF settings["dev.settings"]
             THEN settings'["plr.timemachine"] = settings["plr.timemachine"]
             ELSE settings'["dev.timemachine"] = settings["dev.timemachine"]
          /\ settings'["dev.settings"] = settings["dev.settings"]
          /\ settings'["autoslot"] = settings["autoslot"]]_vars

\* a toggle switched the Time Machine off under the player settings while the
\* developer setting, which it did not write, is still true
C15_Witness ==
  /\ smCall.op = "toggleTimeMachine"
  /\ myActiveMode = "Off"
  /\ ~settings["dev.settings"]
  /\ settings["dev.timemachine"]
  /\ ~settings["plr.timemachine"]

\* C16: an update in mode TimeMachine calls RewindManager::addState exactly once, with
\* continuous = true; an update in mode Off calls it not at all and changes neither
\* the history nor the mode nor the current slot.
C16_UpdateAddsOneContinuousState ==
  smCall.op = "update" =>
    /\ smCall.changed \subseteq {"history"}
    /\ IF myActiveMode = "TimeMachine"
       THEN /\ Len(smCall.adds) = 1
            /\ smCall.adds[1][2] = TRUE
            /\ myRewindManager.cursor = Len(myRewindManager.states)
            /\ myRewindManager.states[myRewindManager.cursor].state = machine
            /\ myRewindManager.states[myRewindManager.cursor].continuous
       ELSE smCall.adds = <<>> /\ smCall.changed = {}

\* an update in mode TimeMachine put a snapshot of a console that had moved on
C16_Witness ==
  /\ smCall.op = "update"
  /\ myActiveMode = "TimeMachine"
  /\ machine # 0
  /\ "history" \in smCall.changed
  /\ myRewindManager.states[myRewindManager.cursor].state = machine

\* the file the last loadState or saveState used (loadState leaves the files alone)
UsedFile == FileAt(files, smCall.slot).data

\* C17: a loadState that opens a file whose stored cartridge name differs from the
\* current cartridge's name fails: Console::load is not called and the live console
\* is left as it was.
C17_NameMismatchLeavesMachine ==
  (/\ smCall.op = "loadState"
   /\ smCall.opened
   /\ Len(UsedFile) >= 2
   /\ UsedFile[2] # CartridgeName)
  => (/\ ~smCall.consoleLoad
      /\ "machine" \notin smCall.changed
      /\ smCall.message.text # "State loaded")

\* a load of a file with the right header, another cartridge's name and a body that
\* differs from the live console
C17_Witness ==
  /\ smCall.op = "loadState"
  /\ smCall.opened
  /\ UsedFile = <<STATE_HEADER, "other", Body(0)>>
  /\ machine # 0

\* C18: loadState checks the header, then the cartridge name, then loads the body.  A
\* wrong header is reported as "Incompatible state", also when the name is wrong too;
\* a wrong name under a right header as "doesn't match current ROM"; in both cases the
\* body is not read, and Console::load is called only after both matched.
C18_HeaderThenNameThenBody ==
  (smCall.op = "loadState" /\ smCall.opened) =>
    /\ (Len(UsedFile) >= 1 /\ UsedFile[1] # STATE_HEADER)
        => (/\ smCall.message.text = "Incompatible state file"
            /\ ~smCall.consoleLoad
            /\ smCall.read < 3)
    /\ (Len(UsedFile) >= 2 /\ UsedFile[1] = STATE_HEADER /\ UsedFile[2] # CartridgeName)
        => (/\ smCall.message.text = "State file doesn't match current ROM"
            /\ ~smCall.consoleLoad
            /\ smCall.read < 3)
    /\ smCall.consoleLoad
        => (/\ Len(UsedFile) >= 2
            /\ UsedFile[1] = STATE_HEADER
            /\ UsedFile[2] = CartridgeName)

\* a load of a file whose header and name are both wrong reported the header
C18_Witness ==
  /\ smCall.op = "loadState"
  /\ smCall.opened
  /\ UsedFile = <<"other", "other", Body(0)>>
  /\ smCall.message.text = "Incompatible state file"
  /\ machine # 0

C20_IOFailureChangesNothing ==
  /\ (smCall.op \in {"loadState", "saveState"} /\ smCall.slot >= 0 /\ ~smCall.opened)
      => (/\ smCall.changed = {}
          /\ smCall.message.text =
               IF smCall.op = "loadState" THEN "Can't open/load from state file"
               ELSE "Can't open/save to state file"
          /\ smCall.message.slot = smCall.slot)
  /\ (smCall.op = "saveState" /\ smCall.opened
        /\ (Len(UsedFile) < 3 \/ smCall.message.text # "State saved"))
      => (/\ smCall.changed \subseteq {"files"}
          /\ smCall.message.text = "Error saving state")

\* with autoslot on, a save to slot 0 failed at the body and left the current slot
\* at 0, and then a file that does not exist could not be opened
C20_Witness ==
  /\ smCall.op \in {"loadState", "saveState"}
  /\ smCall.slot = SlotCount - 1
  /\ ~smCall.opened
  /\ settings["autoslot"]
  /\ myCurrentSlot = 0
  /\ files[0].data = <<STATE_HEADER, CartridgeName>>
  /\ myActiveMode = "TimeMachine"
  /\ myRewindManager.cursor > 0

\* C21: a successful saveState leaves the current slot at (old current slot + 1) mod 10
\* when autoslot is on, whatever the slot argument, and where it was when autoslot is off.
C21_AutoslotAdvancesCurrent ==
  (smCall.op = "saveState" /\ smCall.message.text = "State saved") =>
    myCurrentSlot = IF settings["autoslot"] THEN (smCall.current + 1) % 10
                    ELSE smCall.current

\* what the code does instead: the slot after the one that was saved
C21_AutoslotFollowsSavedSlot ==
  (smCall.op = "saveState" /\ smCall.message.text = "State saved") =>
    myCurrentSlot = IF settings["autoslot"] THEN (smCall.slot + 1) % 10
                    ELSE smCall.current

\* C22: loadState and saveState with a negative argument use the file of the slot that
\* was current when they were called, and with a non-negative argument the file of
\* exactly that slot, whatever the current slot is; a save writes no other file.
C22_NegativeArgumentIsCurrentSlot ==
  (smCall.op \in {"loadState", "saveState"} /\ smCall.slot >= 0) =>
    /\ smCall.slot = IF smCall.arg < 0 THEN smCall.current ELSE smCall.arg
    /\ smCall.message.slot = smCall.slot
    /\ (smCall.op = "saveState" /\ smCall.message.text = "State saved")
        => files[smCall.slot].data = <<STATE_HEADER, CartridgeName, Body(machine)>>

\* a save with an explicit slot wrote that slot's file while another slot was current,
\* and the file of slot 0 is not the one written
C22_Witness ==
  /\ smCall.op = "saveState"
  /\ smCall.arg = SlotCount - 1
  /\ smCall.current \notin {0, SlotCount - 1}
  /\ smCall.message.text = "State saved"
  /\ files[SlotCount - 1].data = <<STATE_HEADER, CartridgeName, Body(machine)>>
  /\ files[0] # files[SlotCount - 1]

\* C26: every file loadState or saveState opens has a slot suffix in 0..9, for every
\* slot argument and every current slot.
C26_SlotSuffixInRange ==
  (smCall.op \in {"loadState", "saveState"} /\ smCall.message # NoMessage) =>
    smCall.slot \in 0..9

\* what holds: the suffix is in range for every argument up to 9
C26_SlotSuffixInRangeForArgsUpTo9 ==
  (smCall.op \in {"loadState", "saveState"} /\ smCall.message # NoMessage
    /\ smCall.arg <= 9) =>
    smCall.slot \in 0..9

\* C23: after a successful saveState to a slot, a loadState of that slot's file gives
\* back the console state of the time of the save, from whatever state the console has
\* moved to in between; the save itself leaves the console alone, and a successful load
\* leaves the console in the state its file holds.
C23_SaveLoadRoundTrip ==
  /\ (smCall.op = "saveState" /\ smCall.message.text = "State saved") =>
       /\ "machine" \notin smCall.changed
       /\ \A live \in 0..MaxMachine :
            /\ LoadOutcome(files[smCall.slot].data, live).text = "State loaded"
            /\ LoadOutcome(files[smCall.slot].data, live).machine = machine
  /\ (smCall.op = "loadState" /\ smCall.message.text = "State loaded") =>
       /\ Len(UsedFile) = 3
       /\ machine = UsedFile[3].state

\* a load brought the console back to the state a save had written before it moved on
C23_Witness ==
  /\ smCall.op = "loadState"
  /\ smCall.message.text = "State loaded"
  /\ "machine" \in smCall.changed
  /\ UsedFile = <<STATE_HEADER, CartridgeName, Body(machine)>>

C29_CursorIsLiveState ==
  (smCall.op # "" /\ "machine" \in smCall.changed /\ myRewindManager.cursor > 0) =>
    myRewindManager.states[myRewindManager.cursor].state = machine

\* C27: reset empties the rewind history, derives the mode from the settings again and
\* changes nothing else: the current slot, the settings, the live console and the
\* files stay as they were.
C27_ResetKeepsSlot ==
  smCall.op = "reset" =>
    /\ myRewindManager = NoHistory
    /\ myActiveMode =
         IF (IF settings["dev.settings"] THEN settings["dev.timemachine"]
             ELSE settings["plr.timemachine"])
         THEN "TimeMachine" ELSE "Off"
    /\ smCall.changed \subseteq {"history", "mode"}
    /\ myCurrentSlot = smCall.current

\* a reset dropped a history and switched the mode while the current slot was not 0
C27_Witness ==
  /\ smCall.op = "reset"
  /\ smCall.changed = {"history", "mode"}
  /\ myCurrentSlot # 0
  /\ myCurrentSlot = smCall.current

\* C28: rewindStates(n), unwindStates(n) and windStates(n, unwind) pass their
\* arguments to the RewindManager unchanged in either mode and return what it returns;
\* the cursor moves n entries back or forward, stopping at the ends of the history, and
\* when it moved the live console is in the state of the snapshot it landed on: one
\* rewind after two snapshots restores the first, one unwind after that the second.
C28_WindRoundTrip ==
  smCall.op \in {"rewindStates", "unwindStates", "windStates"} =>
    LET unwind == smCall.op = "unwindStates" \/ (smCall.op = "windStates" /\ smCall.flag)
        last   == Len(myRewindManager.states)
        target == IF unwind
                  THEN (IF smCall.cursor + smCall.arg > last THEN last
                        ELSE smCall.cursor + smCall.arg)
                  ELSE (IF smCall.cursor = 0 THEN 0
                        ELSE IF smCall.cursor - smCall.arg < 1 THEN 1
                        ELSE smCall.cursor - smCall.arg)
    IN /\ smCall.winds = <<[fn |-> smCall.op, n |-> smCall.arg, unwind |-> unwind]>>
       /\ myRewindManager.cursor = target
       /\ smCall.ret = (target # smCall.cursor)
       /\ smCall.ret => machine = myRewindManager.states[target].state
       /\ ~smCall.ret => smCall.changed = {}
       /\ smCall.changed \subseteq {"history", "machine"}

\* with the Time Machine off, an unwind by one went from the first snapshot back to
\* the second, which holds another state, and the live console is in that state
C28_Witness ==
  /\ smCall.op = "unwindStates"
  /\ smCall.arg = 1
  /\ smCall.ret
  /\ smCall.cursor = 1
  /\ myRewindManager.cursor = 2
  /\ myRewindManager.states[1].state # myRewindManager.states[2].state
  /\ machine = myRewindManager.states[2].state
  /\ myActiveMode = "Off"

\* C24: saveState(Serializer&) writes the format tag, the cartridge name and the
\* console state in that order and returns true only when all three are in the stream;
\* loadState(Serializer&) returns true exactly when there is a console, the stream is
\* valid, its tag is the format tag, its name is the cartridge's and Console::load
\* succeeds, calls Console::load only after tag and name matched, and changes the live
\* console only when it returns true.  Neither shows a message or moves the current
\* slot.  loadState(int) reports "State loaded" for exactly the same contents.
C24_StreamContract ==
  LET tagOk  == Len(smCall.stream) >= 1 /\ smCall.stream[1] = STATE_HEADER
      nameOk == tagOk /\ Len(smCall.stream) >= 2 /\ smCall.stream[2] = CartridgeName
      bodyOk == nameOk /\ Len(smCall.stream) >= 3 /\ smCall.stream[3].valid
      file   == UsedFile
      fileOk == /\ Len(file) >= 3
                /\ file[1] = STATE_HEADER
                /\ file[2] = CartridgeName
                /\ file[3].valid
  IN /\ smCall.op = "saveState(Serializer&)" =>
          /\ smCall.ret => smCall.stream = <<STATE_HEADER, CartridgeName, Body(machine)>>
          /\ smCall.ret => (hasConsole /\ smCall.opened)
          /\ \A i \in 1..Len(smCall.stream) :
                smCall.stream[i] = <<STATE_HEADER, CartridgeName, Body(machine)>>[i]
          /\ smCall.changed \subseteq {"files"}
          /\ smCall.message = NoMessage
     /\ smCall.op = "loadState(Serializer&)" =>
          /\ smCall.stream = file
          /\ smCall.ret = (hasConsole /\ smCall.opened /\ bodyOk)
          /\ smCall.consoleLoad => nameOk
          /\ smCall.ret => machine = smCall.stream[3].state
          /\ ~smCall.ret => smCall.changed = {}
          /\ smCall.changed \subseteq {"machine"}
          /\ smCall.message = NoMessage
     /\ (smCall.op = "loadState" /\ smCall.opened) =>
          ((smCall.message.text = "State loaded") = fileOk)

\* a stream load returned true for a stream that holds the tag, the name and the body
\* of a console state other than the one the console was in, and restored it
C24_Witness ==
  /\ smCall.op = "loadState(Serializer&)"
  /\ smCall.ret
  /\ "machine" \in smCall.changed
  /\ smCall.stream = <<STATE_HEADER, CartridgeName, Body(machine)>>

\* the fields of the dispatch result the controller read in this iteration
FieldsRead == {r.field : r \in drReads}

\* C30: after the switch on the status, the console is fried only if the status is ok
\* and the event handler reports frying, and never after a debugger or fatal result; a
\* debugger result has started the debugger with the message, address, read-trap flag
\* and tooltip of the result; a status other than ok, debugger and fatal does not get
\* past the switch.
C30_FryAndTrapHandling ==
  /\ pc = "d_return" =>
       /\ fry.fried => (dispatchResult.status = "ok" /\ fry.asked /\ fry.frying)
       /\ dispatchResult.status \in {"debugger", "fatal"} => ~fry.fried
       /\ dispatchResult.status = "debugger" =>
            /\ ehState = "DEBUGGER"
            /\ {"message", "address", "wasReadTrap", "toolTip"} \subseteq FieldsRead
  /\ pc \in {"d_fry", "d_return"} => dispatchResult.status \in {"ok", "debugger", "fatal"}
  /\ (pc = "failed" /\ workerFault = "none") =>
       (dispatchResult.status \notin {"ok", "debugger", "fatal"} /\ fry = NoFry)

\* C30 as the code has it: the same, and a debugger result starts the debugger with
\* the four fields in a build with the debugger; in a build without it the result is
\* only looked at, nothing is started and the dispatch returns as after an ok result,
\* without frying.
C30_FryAndTrapHandlingPerBuild ==
  /\ pc = "d_return" =>
       /\ fry.fried => (dispatchResult.status = "ok" /\ fry.asked /\ fry.frying)
       /\ dispatchResult.status \in {"debugger", "fatal"} => (~fry.fried /\ ~fry.asked)
       /\ dispatchResult.status = "debugger" =>
            IF debuggerSupport
            THEN /\ ehState = "DEBUGGER"
                 /\ FieldsRead = {"status", "message", "address", "wasReadTrap", "toolTip"}
            ELSE /\ ehState = "EMULATION"
                 /\ FieldsRead = {"status"}
  /\ pc \in {"d_fry", "d_return"} => dispatchResult.status \in {"ok", "debugger", "fatal"}
  /\ (pc = "failed" /\ workerFault = "none") =>
       (dispatchResult.status \notin {"ok", "debugger", "fatal"} /\ fry = NoFry)

\* the console was fried after an ok result
C30_Witness ==
  /\ pc = "d_return"
  /\ dispatchResult.status = "ok"
  /\ fry.fried

\* C37: after a successful saveState with autoslot on, the slot named after "switching
\* to slot" in the message is the new current slot.
C37_MessageNamesNewSlot ==
  (smCall.op = "saveState" /\ smCall.message.text = "State saved" /\ settings["autoslot"])
  => smCall.message.next = myCurrentSlot

\* what the code does instead: the message names the slot that was just saved
C37_MessageNamesSavedSlot ==
  (smCall.op = "saveState" /\ smCall.message.text = "State saved" /\ settings["autoslot"])
  => smCall.message.next = smCall.slot

\* C36: addExtraState(message) in Time Machine mode calls RewindManager::addState once
\* with the message and continuous = false and returns its result, the new snapshot
\* being at the cursor with that label and the state of the live console; in mode Off
\* it returns false, calls nothing and changes nothing.  No operation made while the
\* mode is Off adds a snapshot.
C36_ExtraStateOnlyInTimeMachine ==
  /\ smCall.op = "addExtraState" =>
       IF myActiveMode = "TimeMachine"
       THEN /\ Len(smCall.adds) = 1
            /\ smCall.adds[1][2] = FALSE
            /\ smCall.adds[1][1] \in ExtraLabels
            /\ smCall.changed \subseteq {"history"}
            /\ smCall.ret =>
                 /\ myRewindManager.cursor = Len(myRewindManager.states)
                 /\ myRewindManager.states[myRewindManager.cursor] =
                      [state |-> machine, label |-> smCall.adds[1][1], continuous |-> FALSE]
            /\ ~smCall.ret => smCall.changed = {}
       ELSE /\ ~smCall.ret
            /\ smCall.adds = <<>>
            /\ smCall.changed = {}
  /\ (myActiveMode = "Off" /\ smCall.op # "toggleTimeMachine") =>
       (smCall.adds = <<>> /\ (smCall.op \in {"update", "addExtraState"} => smCall.changed = {}))

\* in Time Machine mode an extra snapshot labelled "b" was added behind a snapshot that
\* update() took
C36_Witness ==
  /\ smCall.op = "addExtraState"
  /\ smCall.ret
  /\ myRewindManager.cursor = 2
  /\ myRewindManager.states[2].label = "b"
  /\ myRewindManager.states[1].continuous
  /\ myActiveMode = "TimeMachine"

\* C35: with no console available, that is no console object or the event handler in
\* the launcher, saveState(slot) and loadState(slot) open no file, show no message
\* and change nothing, and the Serializer forms return false, read nothing from the
\* stream, write nothing to it, do not call Console::load and change nothing.
C35_NoConsoleNoEffect ==
  ~(myConsole /\ ehState # "LAUNCHER") =>
    /\ smCall.op \in {"loadState", "saveState"} =>
         /\ ~smCall.opened
         /\ smCall.slot = -1
         /\ smCall.message = NoMessage
         /\ smCall.changed = {}
         /\ myCurrentSlot = smCall.current
    /\ smCall.op \in {"loadState(Serializer&)", "saveState(Serializer&)"} =>
         /\ ~smCall.ret
         /\ smCall.read = 0
         /\ ~smCall.consoleLoad
         /\ smCall.changed = {}
    /\ smCall.op = "saveState(Serializer&)" => smCall.stream = <<>>

\* a console object exists and the event handler is in the launcher: a stream that
\* holds a good state of this cartridge, other than the live one, was not loaded
C35_Witness ==
  /\ myConsole
  /\ ehState = "LAUNCHER"
  /\ smCall.op = "loadState(Serializer&)"
  /\ smCall.opened
  /\ Len(smCall.stream) = 3
  /\ smCall.stream[1] = STATE_HEADER
  /\ smCall.stream[2] = CartridgeName
  /\ smCall.stream[3].valid
  /\ smCall.stream[3].state # machine

\* C34: the current slot is always in 0..9: 0 at construction, moved by changeState to
\* (current slot + 1) mod 10, and taken outside 0..9 by no sequence of saveState,
\* loadState, changeState, toggleTimeMachine, update and reset with any slot arguments.
C34_CurrentSlotInRange ==
  /\ myCurrentSlot \in 0..(SlotCount - 1)
  /\ smCall.op = "changeState" => myCurrentSlot = (smCall.current + 1) % SlotCount

\* what the code does keep: the current slot is in 0..9 until a save to the largest
\* int slot has succeeded with autoslot on, and from 0..9 changeState moves it to the
\* next slot mod 10
C34_CurrentSlotInRangeBelowIntMax ==
  /\ myCurrentSlot \in 0..(SlotCount - 1)
       \/ (files[INT_MAX].exists /\ myCurrentSlot \in -8..-1)
  /\ (smCall.op = "changeState" /\ smCall.current >= 0)
       => myCurrentSlot = (smCall.current + 1) % SlotCount

\* C38: the Breakpoint values getBreakpoints() returns are the stored keys, which carry
\* the unmasked address of the add that created the entry: an add for a key that is
\* present (the same address or a mirror of it) sets the flags and leaves the stored
\* address as it was, and an add for a key that is absent, after an erase for example,
\* stores the address it was given.
C38_ListedAddressIsFirstAdded ==
  /\ bpCall.op = "add" =>
       /\ {n.first.addr : n \in Find(myMap, bpCall.bp)} =
            IF bpCall.had THEN bpCall.oldAddrs ELSE {bpCall.bp.addr}
       /\ \A n \in Find(myMap, bpCall.bp) : n.second = bpCall.flags
       /\ Cardinality(Find(myMap, bpCall.bp)) = 1
  /\ bpCall.op = "getBreakpoints" =>
       {bpRet.list[i] : i \in 1..Len(bpRet.list)} = {n.first : n \in myMap}

\* an add of a mirror of a stored address changed the flags and the map still reports
\* the address that was stored first
C38_Witness ==
  /\ bpCall.op = "add"
  /\ bpCall.had
  /\ bpCall.oldAddrs # {bpCall.bp.addr}
  /\ bpCall.oldFlags # bpCall.flags
  /\ \E n \in myMap : n.first.addr \in bpCall.oldAddrs /\ BpEq(n.first, bpCall.bp)

\* the branch or branches of the if / else if / else the current iteration has taken
Branches == SelectSeq(iterSteps, LAMBDA x : x # "fpsReset")

\* C32: an iteration that does not quit takes exactly one of three branches, chosen by
\* the event handler state the poll left: dispatchEmulation in EMULATION, the playback
\* frame in PLAYBACK, the GUI frame in every other state; none before the selection
\* and none in the iteration that quits; the worker is started only in an iteration
\* that took the dispatch branch.
C32_OneBranchPerIteration ==
  /\ Len(Branches) <= 1
  /\ pc \in {"poll", "enter", "select", "cleanup", "done"} => Branches = <<>>
  /\ pc \in DispatchPcs \cup {"advance", "reconcile", "sleep"} => Len(Branches) = 1
  /\ pc \in DispatchPcs => Branches = <<"dispatch">>
  /\ Branches = <<"playback">> => ehState = "PLAYBACK"
  /\ Branches = <<"gui">> => ehState \notin {"EMULATION", "PLAYBACK"}
  /\ (Branches = <<"dispatch">> /\ drReads = {}) => ehState = "EMULATION"
  /\ (workerStarted \/ iterCalls # <<>>) => (Branches = <<"dispatch">> /\ myConsole)

\* after an earlier dispatch, an iteration with the event handler in PAUSE rendered the
\* GUI frame and started no worker
C32_Witness ==
  /\ pc = "advance"
  /\ Branches = <<"gui">>
  /\ ehState = "PAUSE"
  /\ nextResultId >= 1
  /\ iterCalls = <<>>

\* C33: when the poll of an iteration leaves the event handler in EMULATION and it was
\* in another state at the top of the iteration, virtual time is set to the wall clock
\* and the FPS meter is reset once, before the branch is selected, so that the
\* dispatch of that iteration starts the worker with virtual time equal to the wall
\* clock; in every other iteration virtual time is left as it was and the FPS meter is
\* not reset.
C33_EnteringEmulationResetsVirtualTime ==
  /\ [](/\ pc = "select" =>
             ("fpsReset" \in {iterSteps[i] : i \in 1..Len(iterSteps)})
               = (~wasEmulation /\ ehState = "EMULATION")
        /\ pc \in DispatchPcs =>
             ("fpsReset" \in {iterSteps[i] : i \in 1..Len(iterSteps)}) = ~wasEmulation
        /\ \A i \in 2..Len(iterSteps) : iterSteps[i] # "fpsReset"
        /\ (pc \in {"select", "d_entry", "d_pending", "d_render", "d_start"}
              /\ ~wasEmulation /\ ehState = "EMULATION") => virtualTime = wall)
  /\ [][(pc = "enter" /\ pc' = "select") =>
          virtualTime' = IF ~wasEmulation /\ ehState = "EMULATION" THEN wall
                         ELSE virtualTime]_vars

\* the second dispatch of a session, in an iteration that came back to the emulation,
\* starts the worker with virtual time at the wall clock, which has advanced
C33_Witness ==
  /\ pc = "d_start"
  /\ ~wasEmulation
  /\ iterSteps = <<"fpsReset", "dispatch">>
  /\ nextResultId = 2
  /\ wall > 0
  /\ virtualTime = wall

\* C31: the debugger is entered by dispatchEmulation only after emulationWorker.stop()
\* has returned for that dispatch, and the worker is not started again while the event
\* handler is in the debugger; a debugger command changes the BreakpointMap only while
\* the worker is stopped.
C31_BreakpointsChangeWhileWorkerStopped ==
  /\ [](/\ ehState = "DEBUGGER" => ~workerStarted
        /\ (pc \in {"d_fry", "d_return"} /\ ehState = "DEBUGGER")
             => iterCalls = <<"start", "stop">>)
  /\ [][/\ (ehState' = "DEBUGGER" /\ ehState # "DEBUGGER") =>
             /\ ~workerStarted /\ ~workerStarted'
             /\ pc = "poll" \/ (pc = "d_handle" /\ iterCalls = <<"start", "stop">>)
        /\ (myMap' # myMap \/ myInitialized' # myInitialized) =>
             (~workerStarted /\ ~workerStarted' /\ ehState = "DEBUGGER")
      ]_vars

\* a breakpoint set by a debugger command is in the map after the debugger was left,
\* while the worker of the next dispatch runs
C31_Witness ==
  /\ workerStarted
  /\ workerCycles > 0
  /\ myMap # {}
  /\ bpCall.op = "add"
  /\ nextResultId = 2

\* C39: the NTSC filter's current adjustable is always one of the ten entries 0..9;
\* with 'Custom' selected setNextAdjustable moves it one forward and
\* setPreviousAdjustable one back, modulo 10, so that either call undoes the other and
\* ten calls of one of them in a row return to the start; with any other preset both
\* calls, increaseAdjustable and decreaseAdjustable change neither the index nor the
\* custom setup.
C39_AdjustableIndexCycles ==
  LET custom == ntCall.preset = "PRESET_CUSTOM"
  IN  /\ myCurrentAdjustable \in 0..9
      /\ (custom /\ ntCall.op = "setNextAdjustable")
           => myCurrentAdjustable = (ntCall.index + 1) % 10
      /\ (custom /\ ntCall.op = "setPreviousAdjustable")
           => myCurrentAdjustable = (ntCall.index + 9) % 10
      /\ (custom /\ ntCall.op \in Selectors /\ ntCall.prevOp \in Selectors \ {ntCall.op})
           => myCurrentAdjustable = ntCall.prevIndex
      /\ ntCall.run = 10 => myCurrentAdjustable = ntCall.runStart
      /\ (~custom /\ ntCall.op \in Selectors \cup Adjusters)
           => /\ myCurrentAdjustable = ntCall.index
              /\ myCustomSetup = ntCall.custom
              /\ myPreset = ntCall.preset
              /\ ntCall.ret = NotSelected

\* ten setPreviousAdjustable calls in a row, made after an adjustable other than the
\* first was changed, have come back to that adjustable
C39_Witness ==
  /\ ntCall.op = "setPreviousAdjustable"
  /\ ntCall.run = 10
  /\ myCurrentAdjustable = 3
  /\ ntAdjusts > 0
  /\ myCustomSetup["saturation"] # myCustomSetup["contrast"]

\* a call made while another preset is selected, after the custom setup was adjusted
C39_WitnessOtherPreset ==
  /\ ntCall.op = "increaseAdjustable"
  /\ ntCall.preset = "PRESET_SVIDEO"
  /\ myCurrentAdjustable = 9
  /\ ntAdjusts > 0

====
